---- MODULE Spec2Model ----
(***************************************************************************)
(* canvas-sms-web: the scheduling and delivery core.                       *)
(*                                                                         *)
(*   SchedulerService (services/scheduler.service.ts): installs and        *)
(*   cancels the recurring Bull job of a (parent, child) pair.             *)
(*   processSmsJob (worker.ts): one attempt of one firing - fetch the      *)
(*   Canvas TODO items, format, send to the parent and optionally to the   *)
(*   child, log every send in the message table.                           *)
(*                                                                         *)
(* The recurring-job backend is the Bull queue 'daily-sms'.  What the      *)
(* model takes from Bull is written where it is used: a repeatable job is  *)
(* registered under the key name:jobId:endDate:tz:cron, its instances are  *)
(* stored under ids repeat:<hash>:<millis>, a job that throws is retried   *)
(* until attemptsMade reaches opts.attempts.                               *)
(***************************************************************************)
EXTENDS Integers, Sequences, FiniteSets, TLC

\* ------------------------------------------------------------------ bounds

MaxFirings == 2   \* firings (queued jobs) in one behaviour
MaxFaults == 3    \* adverse answers of the Canvas API (an error, an oversized
                  \* list) and of the SMS provider in one behaviour
MaxDbFaults == 1  \* failed inserts into table message in one behaviour
MaxInstalls == 3  \* scheduler calls (install, cancel) in one behaviour
MaxClock == 2     \* occurrences of a daily schedule that come due in one behaviour
MaxCalls == 2     \* scheduler calls in flight at the same time in one behaviour
MaxPool == 3      \* firings queued in the behaviours of the wait list and the pool
MaxItems == 3     \* items in a response of the Canvas API and in a list to format
MaxBody == 320    \* characters in a message body whose segments are counted

\* ------------------------------------------------------- program constants

Attempts == 3          \* defaultJobOptions.attempts
BackoffDelay == 60000  \* defaultJobOptions.backoff.delay, milliseconds
Concurrency == 5       \* dailySmsQueue.process('send-sms', 5, ...)
MaxSegments == 5       \* validateMessage(message, maxSegments = 5)

\* ------------------------------------------------------------------ values

Parents == {"p1", "p2"}
Children == {"c1", "c2"}
Pairs == Parents \X Children

NoRow == [exists |-> FALSE]   \* findUnique returned null
Null == <<>>                  \* a null column: falsy, like the empty string

\* Phone numbers are strings; the model keeps them as sequences of characters.
ParentPhone == <<"+", "1", "5">>
ChildPhone == <<"+", "1", "6">>

\* Preference columns: send_time split at ':', send_days split at ','.
SendTimes == {<<"15", "00", "00">>, <<"07", "30", "00">>}
SendDaysSet == {<<"Mon", "Tue", "Wed", "Thu", "Fri">>, <<"Sat", "Sun">>}
Timezones == {"America/Los_Angeles"}

VARIABLES
    parent,        \* table parent: [Parents -> NoRow or a row]
    child,         \* table child: [Children -> NoRow or a row]
    preference,    \* table preference: [Parents -> NoRow or a row]
    canvasToken,   \* table canvas_token: [Children -> NoRow or a row]
    parentChild,   \* table parent_child: [Pairs -> NoRow or a row]
    messages,      \* table message: the Occurrence records
    repeat,        \* Bull: the registered repeatable jobs (Redis zset 'repeat')
    repeatJobs,    \* Bull: the delayed instances of the repeatable jobs
    clock,         \* the time, counted in occurrences of a daily schedule
    fired,         \* history: the instances that came due, and the job of each
    calls,         \* the scheduler calls in flight, each at one of its awaits
    started,       \* the processes whose startup has completed
    jobs,          \* Bull: the jobs added by triggerManualSms or by a trigger
    wait,          \* Bull: the wait list, job numbers in arrival order
    canvasCalls,   \* history: the GETs made to the Canvas API, <<job, attempt>>
    smsAccepted,   \* history: the sends the provider accepted
    faults,        \* history: Canvas and provider failures so far
    dbFaults,      \* history: failed inserts so far
    installs,      \* history: scheduler calls so far
    given,         \* a call of a pure function studied by itself: its arguments
    returned       \* what that call returned, Null until it has

dbVars == <<parent, child, preference, canvasToken, parentChild>>
schedVars == <<repeat, repeatJobs, installs, clock, fired, calls, started>>
execVars == <<messages, jobs, wait, canvasCalls, smsAccepted, faults, dbFaults>>
vars == <<parent, child, preference, canvasToken, parentChild, messages, repeat,
          repeatJobs, clock, fired, calls, started, jobs, wait, canvasCalls,
          smsAccepted, faults, dbFaults, installs, given, returned>>
fnVars == <<given, returned>>

\* ------------------------------------------------- SchedulerService: cron

dayMap(d) ==
    CASE d = "Sun" -> 0 [] d = "Mon" -> 1 [] d = "Tue" -> 2 [] d = "Wed" -> 3
      [] d = "Thu" -> 4 [] d = "Fri" -> 5 [] d = "Sat" -> 6

\* The shorthand taken for any list of five days, whatever the days.
buildCronExpressionAnyFive(sendTime, sendDays, timezone) ==
    LET days == [i \in 1..Len(sendDays) |-> dayMap(sendDays[i])]
        dayRange == IF Len(days) = 5
                    THEN [shorthand |-> TRUE, days |-> <<>>]
                    ELSE [shorthand |-> FALSE, days |-> days]
    IN [minute |-> sendTime[2], hour |-> sendTime[1], dow |-> dayRange]

\* `${minutes} ${hours} * * ${dayRange}`: the three fields that vary.
buildCronExpression(sendTime, sendDays, timezone) ==
    LET hours == sendTime[1]
        minutes == sendTime[2]
        days == [i \in 1..Len(sendDays) |-> dayMap(sendDays[i])]
        \* '1-5' (the Mon-Fri shorthand) or days.join(',')
        dayRange == IF Len(days) = 5 /\ \A i \in 1..5 : days[i] = i
                    THEN [shorthand |-> TRUE, days |-> <<>>]
                    ELSE [shorthand |-> FALSE, days |-> days]
    IN [minute |-> minutes, hour |-> hours, dow |-> dayRange]

\* ------------------------------------------------- SchedulerService: Bull

\* const jobId = `sms-${parentId}-${childId}`
JobIdOf(parentId, childId) == <<"sms", parentId, childId>>

\* Bull's key of a repeatable job: name:jobId:endDate:tz:cron.
RepeatKey(jobId, cron, tz) == [jobId |-> jobId, cron |-> cron, tz |-> tz]

\* A next time that is not after now: the occurrence that is due now.
NextOccurrenceNow(now) == now

\* The next time of a cron expression strictly after now.  Every schedule of
\* the model is daily on its days; the clock counts those occurrences.
NextOccurrence(now) == now + 1

\* An instance of a repeatable job: the job delayed until one occurrence.
Instance(key, at) == [key |-> key, at |-> at]

\* Bull stores the instances of a repeatable job under repeat:<hash>:<millis>,
\* and the jobs added without a jobId under a counter.
RepeatJobId(inst) == <<"repeat", inst.key, inst.at>>

JobIdsIn(instances) ==
    {RepeatJobId(i) : i \in instances} \cup {<<"job", j>> : j \in 1..Len(jobs)}
AllJobIds == JobIdsIn(repeatJobs)

\* dailySmsQueue.getJob(jobId): the job stored under that id, or null.
getJobIn(instances, jobId) == IF jobId \in JobIdsIn(instances) THEN jobId ELSE Null
getJob(jobId) == getJobIn(repeatJobs, jobId)

\* job.remove() of a stored job instance.
removeJobFrom(instances, id) == {i \in instances : RepeatJobId(i) # id}
removeJob(id) == removeJobFrom(repeatJobs, id)

\* ------------------------------------------------------------------ Init

ParentRows == {NoRow} \cup
    {[exists |-> TRUE, phoneNumber |-> ph, timezone |-> tz] :
        ph \in {Null, ParentPhone}, tz \in Timezones}
ChildRows == {NoRow} \cup
    {[exists |-> TRUE, phoneNumber |-> ph] : ph \in {Null, ChildPhone}}
PreferenceRows == {NoRow} \cup
    {[exists |-> TRUE, sendTime |-> t, sendDays |-> d, includeChildInSms |-> b] :
        t \in SendTimes, d \in SendDaysSet, b \in BOOLEAN}
TokenRows == {NoRow, [exists |-> TRUE, isValid |-> TRUE]}

\* prisma.parentChild.create({data: {parentId, childId, isActive: true}})
ActiveLink == [exists |-> TRUE, isActive |-> TRUE]

\* The pairs scheduleAllDailySms finds: where: {isActive: true}.
ActivePair(parentId, childId) ==
    parentChild[<<parentId, childId>>].exists /\ parentChild[<<parentId, childId>>].isActive

Processes == {"server", "worker"}

\* POST /auth/register creates the preference row with the column defaults.
DefaultPreference ==
    [exists |-> TRUE, sendTime |-> <<"15", "00", "00">>,
     sendDays |-> <<"Mon", "Tue", "Wed", "Thu", "Fri">>, includeChildInSms |-> FALSE]

InitQueue ==
    /\ messages = {}
    /\ repeat = {}
    /\ repeatJobs = {}
    /\ jobs = <<>>
    /\ wait = <<>>
    /\ canvasCalls = {}
    /\ smsAccepted = {}
    /\ faults = 0
    /\ dbFaults = 0
    /\ installs = 0
    /\ clock = 0
    /\ fired = {}
    /\ calls = <<>>
    /\ given = Null
    /\ returned = Null

\* The scheduler's specification: registered parents, with or without their
\* preferences; child c1, added by one of them; no process started yet.
InitSched ==
    /\ parent = [p \in Parents |->
                    [exists |-> TRUE, phoneNumber |-> ParentPhone,
                     timezone |-> "America/Los_Angeles"]]
    /\ child = [c \in Children |->
                    IF c = "c1" THEN [exists |-> TRUE, phoneNumber |-> Null] ELSE NoRow]
    /\ preference \in [Parents -> {NoRow, DefaultPreference}]
    /\ canvasToken = [c \in Children |->
                    IF c = "c1" THEN [exists |-> TRUE, isValid |-> TRUE] ELSE NoRow]
    /\ \E p \in Parents :
          parentChild = [pc \in Pairs |-> IF pc = <<p, "c1">> THEN ActiveLink ELSE NoRow]
    /\ started = {}
    /\ InitQueue

\* ------------------------------------------- SchedulerService: operations

\* The queue, [repeat, repeatJobs], that the body of scheduleDailySmsForPair
\* leaves when it runs on the queue q.
InstallPair(q, parentId, childId) ==
    IF ~parent[parentId].exists \/ ~preference[parentId].exists
    THEN \* throw new Error('Parent or preferences not found')
         q
    ELSE LET prefs == preference[parentId]
             cronExpression == buildCronExpression(prefs.sendTime, prefs.sendDays,
                                                   parent[parentId].timezone)
             jobId == JobIdOf(parentId, childId)
             existingJob == getJobIn(q.repeatJobs, jobId)
             afterRemove == IF existingJob # Null
                            THEN removeJobFrom(q.repeatJobs, existingJob)
                            ELSE q.repeatJobs
             key == RepeatKey(jobId, cronExpression, parent[parentId].timezone)
         IN \* queue.add('send-sms', data, {repeat: {cron, tz}, jobId}):
            \* zadd repeat key, then create the next instance of that key
            \* (a job id that is already stored is not added again)
            [repeat |-> q.repeat \cup {key},
             repeatJobs |-> afterRemove \cup {Instance(key, NextOccurrence(clock))}]

\* scheduleDailySmsForPair(parentId, childId)
scheduleDailySmsForPair(parentId, childId) ==
    /\ installs < MaxInstalls
    /\ installs' = installs + 1
    /\ LET q == InstallPair([repeat |-> repeat, repeatJobs |-> repeatJobs],
                            parentId, childId)
       IN /\ repeat' = q.repeat
          /\ repeatJobs' = q.repeatJobs
    /\ UNCHANGED <<clock, fired, calls, started>>
    /\ UNCHANGED dbVars
    /\ UNCHANGED execVars
    /\ UNCHANGED fnVars

\* A cancel that clears the parent's triggers, not the pair's.
cancelDailySmsForParent(parentId, childId) ==
    /\ installs < MaxInstalls
    /\ installs' = installs + 1
    /\ repeat' = {k \in repeat : k.jobId[2] # parentId}
    /\ repeatJobs' = {i \in repeatJobs : i.key.jobId[2] # parentId}
    /\ UNCHANGED <<clock, fired, calls, started>>
    /\ UNCHANGED dbVars
    /\ UNCHANGED execVars
    /\ UNCHANGED fnVars

\* cancelDailySmsForPair(parentId, childId)
cancelDailySmsForPair(parentId, childId) ==
    /\ installs < MaxInstalls
    /\ installs' = installs + 1
    /\ LET jobId == JobIdOf(parentId, childId)
           job == getJob(jobId)
       IN repeatJobs' = IF job # Null THEN removeJob(job) ELSE repeatJobs
    /\ UNCHANGED <<repeat, clock, fired, calls, started>>
    /\ UNCHANGED dbVars
    /\ UNCHANGED execVars
    /\ UNCHANGED fnVars

\* The loop without its try/catch: the error of a pair ends the loop.
RECURSIVE ScheduleEachUntilError(_, _)
ScheduleEachUntilError(relationships, q) ==
    IF relationships = {} THEN q
    ELSE LET rel == CHOOSE r \in relationships : TRUE
         IN IF ~parent[rel[1]].exists \/ ~preference[rel[1]].exists
            THEN q
            ELSE ScheduleEachUntilError(relationships \ {rel},
                                        InstallPair(q, rel[1], rel[2]))

\* The for loop of scheduleAllDailySms over the relationships found: each pair
\* is scheduled in turn, an error of one is logged and the loop goes on.
RECURSIVE ScheduleEach(_, _)
ScheduleEach(relationships, q) ==
    IF relationships = {} THEN q
    ELSE LET rel == CHOOSE r \in relationships : TRUE
         IN ScheduleEach(relationships \ {rel}, InstallPair(q, rel[1], rel[2]))

\* scheduleAllDailySms()
scheduleAllDailySms ==
    /\ installs < MaxInstalls
    /\ installs' = installs + 1
    /\ LET relationships == {pc \in Pairs : ActivePair(pc[1], pc[2])}
           q == ScheduleEach(relationships, [repeat |-> repeat, repeatJobs |-> repeatJobs])
       IN /\ repeat' = q.repeat
          /\ repeatJobs' = q.repeatJobs
    /\ UNCHANGED <<clock, fired, calls, started>>
    /\ UNCHANGED dbVars
    /\ UNCHANGED execVars
    /\ UNCHANGED fnVars

\* startWorker(): connect, register processSmsJob and the event handlers.
startWorker ==
    /\ "worker" \notin started
    /\ started' = started \cup {"worker"}
    /\ UNCHANGED <<repeat, repeatJobs, installs, clock, fired, calls>>
    /\ UNCHANGED dbVars
    /\ UNCHANGED execVars
    /\ UNCHANGED fnVars

\* Server.start(): connect, listen.
ServerStart ==
    /\ "server" \notin started
    /\ started' = started \cup {"server"}
    /\ UNCHANGED <<repeat, repeatJobs, installs, clock, fired, calls>>
    /\ UNCHANGED dbVars
    /\ UNCHANGED execVars
    /\ UNCHANGED fnVars

\* POST /children by parentId, answered 201: the child row, its token, the link.
addChild(parentId, childId, phoneNumber) ==
    /\ "server" \in started
    /\ parent[parentId].exists
    /\ ~child[childId].exists
    /\ child' = [child EXCEPT ![childId] = [exists |-> TRUE, phoneNumber |-> phoneNumber]]
    /\ canvasToken' = [canvasToken EXCEPT ![childId] = [exists |-> TRUE, isValid |-> TRUE]]
    /\ parentChild' = [parentChild EXCEPT ![<<parentId, childId>>] = ActiveLink]
    /\ UNCHANGED <<parent, preference>>
    /\ UNCHANGED schedVars
    /\ UNCHANGED execVars
    /\ UNCHANGED fnVars

\* DELETE /children/:childId by parentId: updateMany({data: {isActive: false}}).
removeChild(parentId, childId) ==
    /\ "server" \in started
    /\ parent[parentId].exists
    /\ ActivePair(parentId, childId)
    /\ parentChild' = [parentChild EXCEPT ![<<parentId, childId>>].isActive = FALSE]
    /\ UNCHANGED <<parent, child, preference, canvasToken>>
    /\ UNCHANGED schedVars
    /\ UNCHANGED execVars
    /\ UNCHANGED fnVars

\* "Edit in database preferences table": send_time, send_days.
EditPreference(parentId, sendTime, sendDays) ==
    /\ preference[parentId].exists
    /\ preference[parentId].sendTime # sendTime \/ preference[parentId].sendDays # sendDays
    /\ preference' = [preference EXCEPT ![parentId].sendTime = sendTime,
                                        ![parentId].sendDays = sendDays]
    /\ UNCHANGED <<parent, child, canvasToken, parentChild>>
    /\ UNCHANGED schedVars
    /\ UNCHANGED execVars
    /\ UNCHANGED fnVars

\* The pairs the scheduler is called for: those with a row in parent_child.
LinkedPairs == {pc \in Pairs : parentChild[pc].exists}

NextSched ==
    \/ startWorker
    \/ ServerStart
    \/ \E p \in Parents, c \in Children, ph \in {Null, ChildPhone} : addChild(p, c, ph)
    \/ \E p \in Parents, c \in Children : removeChild(p, c)
    \/ scheduleAllDailySms
    \/ \E pc \in LinkedPairs : scheduleDailySmsForPair(pc[1], pc[2])
    \/ \E pc \in LinkedPairs : cancelDailySmsForPair(pc[1], pc[2])
    \/ \E p \in Parents, t \in SendTimes, d \in SendDaysSet : EditPreference(p, t, d)

SpecSched == InitSched /\ [][NextSched]_vars

\* ------------------------------------------------------ FormattingService

\* Lengths of what formatMessage builds: the header 'Assignments for
\* YYYY-MM-DD:\n\n', the line 'No assignments due.\n', and one four-line block
\* per item (the block of the README's example item).
HeaderLen == 29
NoAssignmentsLen == 20
BlockLen == 83

\* The message formatMessage returns for a list of n items, as its length.
formatMessage(n) ==
    [len |-> IF n = 0 THEN HeaderLen + NoAssignmentsLen ELSE HeaderLen + n * BlockLen,
     hasUnicode |-> FALSE]

SegmentLength(hasUnicode) == IF hasUnicode THEN 70 ELSE 160
MultiPartSegmentLength(hasUnicode) == IF hasUnicode THEN 67 ELSE 153

\* Math.ceil replaced by a division that rounds down.
countSmsSegmentsFloor(message) ==
    IF message.len <= SegmentLength(message.hasUnicode)
    THEN 1
    ELSE message.len \div MultiPartSegmentLength(message.hasUnicode)

\* countSmsSegments(message)
countSmsSegments(message) ==
    IF message.len <= SegmentLength(message.hasUnicode)
    THEN 1
    ELSE LET m == MultiPartSegmentLength(message.hasUnicode)
         IN (message.len + m - 1) \div m   \* Math.ceil(length / m)

\* A validation without the limit on the segments.
validateMessageNoLimit(message) == message.len # 0

\* validateMessage(message).valid
validateMessage(message) ==
    /\ message.len # 0                              \* 'Message cannot be empty'
    /\ countSmsSegments(message) <= MaxSegments     \* 'Message exceeds maximum ...'

\* ---------------------------------------------------------- TwilioService

Digits == {"0", "1", "2", "3", "4", "5", "6", "7", "8", "9"}

\* validatePhoneNumber: /^\+[1-9]\d{1,14}$/
validatePhoneNumber(phoneNumber) ==
    /\ Len(phoneNumber) >= 3
    /\ Len(phoneNumber) <= 16
    /\ phoneNumber[1] = "+"
    /\ phoneNumber[2] \in Digits \ {"0"}
    /\ \A i \in 3..Len(phoneNumber) : phoneNumber[i] \in Digits

\* ------------------------------------------------------------ processSmsJob

\* The pairs that are fired in the executor's specification.
ExecPairs == {<<"p1", "c1">>}

\* The sizes of the item lists the Canvas API returns.
TodoCounts == {1, 11}

NoMessage == [len |-> 0, hasUnicode |-> FALSE]

NewJob(parentId, childId) ==
    [data |-> [parentId |-> parentId, childId |-> childId],
     state |-> "waiting", attemptsMade |-> 0, delay |-> 0, priority |-> 0,
     pc |-> "idle", todos |-> 0, message |-> NoMessage, sid |-> Null,
     error |-> "none", errors |-> <<>>, trace |-> <<>>]

JobIds == 1..Len(jobs)
Attempt(j) == jobs[j].attemptsMade + 1
ActiveJobs == {j \in JobIds : jobs[j].state = "active"}
At(j, pc) == j \in JobIds /\ jobs[j].state = "active" /\ jobs[j].pc = pc

\* The times a job was found stalled: Bull's stalled counter of the job, read
\* off the history of the job.
StalledCount(j) ==
    Cardinality({i \in 1..Len(jobs[j].trace) : jobs[j].trace[i] = <<"crash">>})

\* A provider that accepts a send and returns no id.
NoSid(j, role) == Null

\* The provider-assigned id of an accepted send: unique per send.
NewSid(j, role) == <<"SM", j, Attempt(j), StalledCount(j), role>>

\* throw: control moves to the catch block of processSmsJob.
Throw(j, kind) == [jobs EXCEPT ![j].pc = "catch", ![j].error = kind]

\* trace is a history field of a job: the steps the queue and processSmsJob
\* have taken for it, each with the answer of the collaborator it met.
Traced(js, j, step) == [js EXCEPT ![j].trace = Append(@, step)]

\* logMessage as a worker would call it that records every attempt as 'sent'.
logMessageAlwaysSent(j, recipientPhone, recipientType, status) ==
    [childId |-> jobs[j].data.childId,
     parentId |-> jobs[j].data.parentId,
     messageBody |-> jobs[j].message,
     recipientPhone |-> recipientPhone,
     recipientType |-> recipientType,
     twilioSid |-> jobs[j].sid,
     status |-> "sent",
     assignmentCount |-> jobs[j].todos,
     job |-> j,
     attempt |-> Attempt(j)]

\* messageService.logMessage(params): one row created in table message.
\* job and attempt are history fields: the firing and attempt that wrote the row.
logMessage(j, recipientPhone, recipientType, status) ==
    [childId |-> jobs[j].data.childId,
     parentId |-> jobs[j].data.parentId,
     messageBody |-> IF status = "sent" THEN jobs[j].message ELSE NoMessage,
     recipientPhone |-> recipientPhone,
     recipientType |-> recipientType,
     twilioSid |-> IF status = "sent" THEN jobs[j].sid ELSE Null,
     status |-> status,
     assignmentCount |-> IF status = "sent" THEN jobs[j].todos ELSE 0,
     job |-> j,
     attempt |-> Attempt(j)]

\* Bull's wait list, the job to start next first.  A job without a priority
\* (0) is put at the end.  A job with a priority is put behind the waiting jobs
\* that have a priority at least as high (a lower or equal number), ahead of all
\* other jobs.
Enqueue(w, j, priority) ==
    IF priority = 0
    THEN Append(w, j)
    ELSE LET count == 1 + Cardinality({i \in 1..Len(w) :
                             jobs[w[i]].priority # 0 /\ jobs[w[i]].priority <= priority})
         IN SubSeq(w, 1, count - 1) \o <<j>> \o SubSeq(w, count, Len(w))

\* { priority: 1 } // High priority for manual triggers
ManualPriority == 1

\* A manual trigger whose job is attempted once: its attempts are used up but
\* for the last.
triggerManualSmsOnce(parentId, childId) ==
    /\ jobs' = Append(jobs, [NewJob(parentId, childId) EXCEPT
                                !.priority = ManualPriority,
                                !.attemptsMade = Attempts - 1])
    /\ wait' = Enqueue(wait, Len(jobs) + 1, ManualPriority)
    /\ UNCHANGED <<messages, canvasCalls, smsAccepted, faults, dbFaults>>
    /\ UNCHANGED dbVars
    /\ UNCHANGED schedVars
    /\ UNCHANGED fnVars

\* triggerManualSms(parentId, childId):
\* queue.add('send-sms', {parentId, childId}, {priority: 1}).
triggerManualSms(parentId, childId) ==
    /\ jobs' = Append(jobs, [NewJob(parentId, childId) EXCEPT !.priority = ManualPriority])
    /\ wait' = Enqueue(wait, Len(jobs) + 1, ManualPriority)
    /\ UNCHANGED <<messages, canvasCalls, smsAccepted, faults, dbFaults>>
    /\ UNCHANGED dbVars
    /\ UNCHANGED schedVars
    /\ UNCHANGED fnVars

\* The queue hands the head of the wait list to processSmsJob, at most
\* Concurrency jobs at a time.
StartJob ==
    /\ "worker" \in started
    /\ wait # <<>>
    /\ Cardinality(ActiveJobs) < Concurrency
    /\ LET j == Head(wait)
       IN jobs' = Traced([jobs EXCEPT ![j].state = "active", ![j].pc = "fetch",
                                      ![j].todos = 0, ![j].message = NoMessage,
                                      ![j].sid = Null, ![j].error = "none",
                                      ![j].delay = 0],
                         j, <<"start">>)
    /\ wait' = Tail(wait)
    /\ UNCHANGED <<messages, canvasCalls, smsAccepted, faults, dbFaults>>
    /\ UNCHANGED dbVars
    /\ UNCHANGED schedVars
    /\ UNCHANGED fnVars

\* canvasService.fetchTodoItems(childId): a row lookup, then the GET, whose
\* outcome is the API's; a 401 marks the token invalid.
FetchOutcomes == {"ok", "auth", "network", "ratelimit"}

\* A fetch whose error is swallowed: the attempt goes on with an empty list.
fetchTodoItemsSwallowed(j, outcome, n) ==
    /\ At(j, "fetch")
    /\ outcome # "ok" /\ n = 1
    /\ faults < MaxFaults
    /\ faults' = faults + 1
    /\ canvasCalls' = canvasCalls \cup {<<j, Attempt(j)>>}
    /\ jobs' = Traced([jobs EXCEPT ![j].pc = "format", ![j].todos = 0],
                       j, <<"fetch", outcome, n>>)
    /\ UNCHANGED dbVars
    /\ UNCHANGED <<messages, wait, smsAccepted, dbFaults>>
    /\ UNCHANGED schedVars
    /\ UNCHANGED fnVars

fetchTodoItems(j, outcome, n) ==
    LET childId == jobs[j].data.childId IN
    /\ At(j, "fetch")
    /\ IF ~child[childId].exists \/ ~canvasToken[childId].exists
       THEN \* 'Child not found', 'Canvas token not found for child'
            /\ outcome = "ok" /\ n = 1
            /\ jobs' = Traced(Throw(j, "notfound"), j, <<"fetch", outcome, n>>)
            /\ UNCHANGED <<canvasCalls, canvasToken, faults>>
       ELSE /\ canvasCalls' = canvasCalls \cup {<<j, Attempt(j)>>}
            /\ IF outcome = "ok"
               THEN /\ jobs' = Traced([jobs EXCEPT ![j].pc = "format", ![j].todos = n],
                                       j, <<"fetch", outcome, n>>)
                    /\ ~validateMessage(formatMessage(n)) => faults < MaxFaults
                    /\ faults' = IF validateMessage(formatMessage(n)) THEN faults
                                  ELSE faults + 1
                    /\ UNCHANGED canvasToken
               ELSE /\ n = 1
                    /\ faults < MaxFaults
                    /\ faults' = faults + 1
                    /\ jobs' = Traced(Throw(j, outcome), j, <<"fetch", outcome, n>>)
                    /\ canvasToken' = IF outcome = "auth"
                                      THEN [canvasToken EXCEPT ![childId].isValid = FALSE]
                                      ELSE canvasToken
    /\ UNCHANGED <<parent, child, preference, parentChild>>
    /\ UNCHANGED <<messages, wait, smsAccepted, dbFaults>>
    /\ UNCHANGED schedVars
    /\ UNCHANGED fnVars

\* formatMessage, validateMessage, then the lookup of the parent and child rows.
FormatAndValidate(j) ==
    /\ At(j, "format")
    /\ LET message == formatMessage(jobs[j].todos)
       IN IF ~validateMessage(message)
          THEN jobs' = Traced(Throw(j, "invalid"), j, <<"format">>)
          ELSE IF ~parent[jobs[j].data.parentId].exists \/ ~child[jobs[j].data.childId].exists
          THEN \* 'Parent or child not found'
               jobs' = Traced(Throw(j, "rows"), j, <<"format">>)
          ELSE jobs' = Traced([jobs EXCEPT ![j].pc = "sendParent", ![j].message = message],
                              j, <<"format">>)
    /\ UNCHANGED <<messages, wait, canvasCalls, smsAccepted, faults, dbFaults>>
    /\ UNCHANGED dbVars
    /\ UNCHANGED schedVars
    /\ UNCHANGED fnVars

\* twilioService.sendSms(to, body) for one recipient; accepted is the provider's answer.
\* Its errors: the client cannot be initialised, the number fails the format
\* check, the provider rejects the number or fails.
SendSms(j, role, to, accepted, nextPc) ==
    /\ IF validatePhoneNumber(to) /\ accepted
       THEN /\ smsAccepted' = smsAccepted \cup
                 {[job |-> j, attempt |-> Attempt(j), stalled |-> StalledCount(j),
                   role |-> role, to |-> to, body |-> jobs[j].message]}
            /\ jobs' = Traced([jobs EXCEPT ![j].pc = nextPc, ![j].sid = NewSid(j, role)],
                               j, <<"send", role, accepted>>)
            /\ UNCHANGED faults
       ELSE /\ ~validatePhoneNumber(to) => accepted
            /\ validatePhoneNumber(to) => faults < MaxFaults
            /\ faults' = IF validatePhoneNumber(to) THEN faults + 1 ELSE faults
            /\ jobs' = Traced(Throw(j, IF role = "parent" THEN "sendParent" ELSE "sendChild"),
                               j, <<"send", role, accepted>>)
            /\ UNCHANGED smsAccepted

\* 4. Send SMS to parent
SendParent(j, accepted) ==
    /\ At(j, "sendParent")
    /\ LET to == parent[jobs[j].data.parentId].phoneNumber
       IN IF to # Null
          THEN SendSms(j, "parent", to, accepted, "logParent")
          ELSE /\ accepted
               /\ jobs' = Traced([jobs EXCEPT ![j].pc = "sendChild"], j, <<"skip", "parent">>)
               /\ UNCHANGED <<smsAccepted, faults>>
    /\ UNCHANGED <<messages, wait, canvasCalls, dbFaults>>
    /\ UNCHANGED dbVars
    /\ UNCHANGED schedVars
    /\ UNCHANGED fnVars

\* The logMessage call after a send; stored is whether the insert succeeds.
LogSent(j, role, to, stored, nextPc) ==
    IF stored
    THEN /\ messages' = messages \cup {logMessage(j, to, role, "sent")}
         /\ jobs' = Traced([jobs EXCEPT ![j].pc = nextPc], j, <<"log", role, stored>>)
         /\ UNCHANGED dbFaults
    ELSE /\ dbFaults < MaxDbFaults
         /\ dbFaults' = dbFaults + 1
         /\ jobs' = Traced(Throw(j, IF role = "parent" THEN "logParent" ELSE "logChild"),
                            j, <<"log", role, stored>>)
         /\ UNCHANGED messages

LogParent(j, stored) ==
    /\ At(j, "logParent")
    /\ LogSent(j, "parent", parent[jobs[j].data.parentId].phoneNumber, stored, "sendChild")
    /\ UNCHANGED <<wait, canvasCalls, smsAccepted, faults>>
    /\ UNCHANGED dbVars
    /\ UNCHANGED schedVars
    /\ UNCHANGED fnVars

\* Step 5 without the opt-in: the child is sent to whenever it has a number.
SendChildWithoutOptIn(j, accepted) ==
    /\ At(j, "sendChild")
    /\ LET to == child[jobs[j].data.childId].phoneNumber
       IN IF to # Null
          THEN SendSms(j, "child", to, accepted, "logChild")
          ELSE /\ accepted
               /\ jobs' = Traced([jobs EXCEPT ![j].pc = "return"], j, <<"skip", "child">>)
               /\ UNCHANGED <<smsAccepted, faults>>
    /\ UNCHANGED <<messages, wait, canvasCalls, dbFaults>>
    /\ UNCHANGED dbVars
    /\ UNCHANGED schedVars
    /\ UNCHANGED fnVars

\* 5. Optionally send SMS to child
SendChild(j, accepted) ==
    /\ At(j, "sendChild")
    /\ LET to == child[jobs[j].data.childId].phoneNumber
           preferences == preference[jobs[j].data.parentId]
       IN IF to # Null /\ preferences.exists /\ preferences.includeChildInSms
          THEN SendSms(j, "child", to, accepted, "logChild")
          ELSE /\ accepted
               /\ jobs' = Traced([jobs EXCEPT ![j].pc = "return"], j, <<"skip", "child">>)
               /\ UNCHANGED <<smsAccepted, faults>>
    /\ UNCHANGED <<messages, wait, canvasCalls, dbFaults>>
    /\ UNCHANGED dbVars
    /\ UNCHANGED schedVars
    /\ UNCHANGED fnVars

\* The record of the child's send written against the parent's number.
LogChildToParent(j, stored) ==
    /\ At(j, "logChild")
    /\ LogSent(j, "child", parent[jobs[j].data.parentId].phoneNumber, stored, "return")
    /\ UNCHANGED <<wait, canvasCalls, smsAccepted, faults>>
    /\ UNCHANGED dbVars
    /\ UNCHANGED schedVars
    /\ UNCHANGED fnVars

LogChild(j, stored) ==
    /\ At(j, "logChild")
    /\ LogSent(j, "child", child[jobs[j].data.childId].phoneNumber, stored, "return")
    /\ UNCHANGED <<wait, canvasCalls, smsAccepted, faults>>
    /\ UNCHANGED dbVars
    /\ UNCHANGED schedVars
    /\ UNCHANGED fnVars

\* return {success: true, ...}: the queue moves the job to completed.
Return(j) ==
    /\ At(j, "return")
    /\ jobs' = Traced([jobs EXCEPT ![j].state = "completed", ![j].pc = "idle"],
                       j, <<"return">>)
    /\ UNCHANGED <<messages, wait, canvasCalls, smsAccepted, faults, dbFaults>>
    /\ UNCHANGED dbVars
    /\ UNCHANGED schedVars
    /\ UNCHANGED fnVars

\* A catch block without the inner try/catch: the error of the insert takes
\* the place of the error that was caught.
CatchLogUnguarded(j, stored) ==
    /\ At(j, "catch")
    /\ LET row == parent[jobs[j].data.parentId]
       IN IF row.exists /\ row.phoneNumber # Null
          THEN IF stored
               THEN /\ messages' = messages \cup
                         {logMessage(j, row.phoneNumber, "parent", "failed")}
                    /\ UNCHANGED dbFaults
               ELSE /\ dbFaults < MaxDbFaults
                    /\ dbFaults' = dbFaults + 1
                    /\ UNCHANGED messages
          ELSE /\ stored
               /\ UNCHANGED <<messages, dbFaults>>
    /\ jobs' = Traced([jobs EXCEPT ![j].pc = "rethrow",
                                   ![j].error = IF stored THEN @ ELSE "logFailed"],
                       j, <<"catch", stored>>)
    /\ UNCHANGED <<wait, canvasCalls, smsAccepted, faults>>
    /\ UNCHANGED dbVars
    /\ UNCHANGED schedVars
    /\ UNCHANGED fnVars

\* catch (error): log a 'failed' message for the parent, when the parent has a
\* phone number; an error of that insert is caught and only logged.
CatchLog(j, stored) ==
    /\ At(j, "catch")
    /\ LET row == parent[jobs[j].data.parentId]
       IN IF row.exists /\ row.phoneNumber # Null
          THEN IF stored
               THEN /\ messages' = messages \cup
                         {logMessage(j, row.phoneNumber, "parent", "failed")}
                    /\ UNCHANGED dbFaults
               ELSE /\ dbFaults < MaxDbFaults
                    /\ dbFaults' = dbFaults + 1
                    /\ UNCHANGED messages
          ELSE /\ stored
               /\ UNCHANGED <<messages, dbFaults>>
    /\ jobs' = Traced([jobs EXCEPT ![j].pc = "rethrow"], j, <<"catch", stored>>)
    /\ UNCHANGED <<wait, canvasCalls, smsAccepted, faults>>
    /\ UNCHANGED dbVars
    /\ UNCHANGED schedVars
    /\ UNCHANGED fnVars

\* Bull's built-in exponential backoff: round((2^attemptsMade - 1) * delay).
Pow2(n) == IF n = 0 THEN 1 ELSE IF n = 1 THEN 2 ELSE IF n = 2 THEN 4 ELSE 8
Backoff(attemptsMade) == (Pow2(attemptsMade) - 1) * BackoffDelay

\* The retry test off by one: a fourth attempt.
RetriesOffByOne(attemptsMade) == attemptsMade <= Attempts

\* Whether the queue retries a job that threw: attemptsMade, already counted,
\* against opts.attempts.
Retries(attemptsMade) == attemptsMade < Attempts

\* throw error: the queue counts the attempt and either delays the job for a
\* retry or moves it to failed.
Rethrow(j) ==
    /\ At(j, "rethrow")
    /\ LET made == jobs[j].attemptsMade + 1
       IN jobs' = Traced([jobs EXCEPT
                     ![j].attemptsMade = made,
                     ![j].errors = Append(@, jobs[j].error),
                     ![j].pc = "idle",
                     ![j].state = IF Retries(made) THEN "delayed" ELSE "failed",
                     ![j].delay = IF Retries(made) THEN Backoff(made) ELSE 0],
                         j, <<"rethrow">>)
    /\ UNCHANGED <<messages, wait, canvasCalls, smsAccepted, faults, dbFaults>>
    /\ UNCHANGED dbVars
    /\ UNCHANGED schedVars
    /\ UNCHANGED fnVars

\* A queue that also puts a job back while an attempt of it is running.
RetriggerStalled(j) ==
    /\ j \in JobIds
    /\ jobs[j].state \in {"delayed", "active"}
    /\ jobs' = Traced([jobs EXCEPT ![j].state = "waiting"], j, <<"retry">>)
    /\ wait' = Enqueue(wait, j, jobs[j].priority)
    /\ UNCHANGED <<messages, canvasCalls, smsAccepted, faults, dbFaults>>
    /\ UNCHANGED dbVars
    /\ UNCHANGED schedVars
    /\ UNCHANGED fnVars

\* The backoff delay of a delayed job has passed: back to the wait list.
Retrigger(j) ==
    /\ j \in JobIds
    /\ jobs[j].state = "delayed"
    /\ jobs' = Traced([jobs EXCEPT ![j].state = "waiting"], j, <<"retry">>)
    /\ wait' = Enqueue(wait, j, jobs[j].priority)
    /\ UNCHANGED <<messages, canvasCalls, smsAccepted, faults, dbFaults>>
    /\ UNCHANGED dbVars
    /\ UNCHANGED schedVars
    /\ UNCHANGED fnVars

\* canvasService.storeToken(childId, token): upsert, isValid: true.
storeToken(childId) ==
    /\ canvasToken[childId].exists
    /\ ~canvasToken[childId].isValid
    /\ canvasToken' = [canvasToken EXCEPT ![childId].isValid = TRUE]
    /\ UNCHANGED <<parent, child, preference, parentChild>>
    /\ UNCHANGED execVars
    /\ UNCHANGED schedVars
    /\ UNCHANGED fnVars

\* A firing that has ended.
Terminal(j) == jobs[j].state \in {"completed", "failed"}

\* One step of processSmsJob or of the queue for job j.
Worker(j) ==
    \/ \E outcome \in FetchOutcomes, n \in TodoCounts : fetchTodoItems(j, outcome, n)
    \/ FormatAndValidate(j)
    \/ \E accepted \in BOOLEAN : SendParent(j, accepted)
    \/ \E stored \in BOOLEAN : LogParent(j, stored)
    \/ \E accepted \in BOOLEAN : SendChild(j, accepted)
    \/ \E stored \in BOOLEAN : LogChild(j, stored)
    \/ Return(j)
    \/ \E stored \in BOOLEAN : CatchLog(j, stored)
    \/ Rethrow(j)
    \/ Retrigger(j)

\* The rows of the fired pair as the database may hold them; no other rows.
InitRows ==
    /\ parent \in [Parents -> ParentRows]
    /\ child \in [Children -> ChildRows]
    /\ preference \in [Parents -> {NoRow, DefaultPreference,
                                   [DefaultPreference EXCEPT !.includeChildInSms = TRUE]}]
    /\ canvasToken \in [Children -> TokenRows]
    /\ \A p \in Parents :
          /\ (\A c \in Children : <<p, c>> \notin ExecPairs) => ~parent[p].exists
          /\ ~parent[p].exists => ~preference[p].exists
    /\ \A c \in Children :
          /\ (\A p \in Parents : <<p, c>> \notin ExecPairs) => ~child[c].exists
          /\ ~child[c].exists => ~canvasToken[c].exists
    /\ parentChild = [pc \in Pairs |->
            IF parent[pc[1]].exists /\ child[pc[2]].exists THEN ActiveLink ELSE NoRow]

\* Spec: one firing, from the wait list to its end, over every configuration
\* of the rows.  Init is the state right after the firing was queued.
Init ==
    /\ InitRows
    /\ messages = {}
    /\ repeat = {}
    /\ repeatJobs = {}
    /\ \E pc \in ExecPairs : jobs = <<NewJob(pc[1], pc[2])>>
    /\ wait = <<1>>
    /\ canvasCalls = {}
    /\ smsAccepted = {}
    /\ faults = 0
    /\ dbFaults = 0
    /\ installs = 0
    /\ clock = 0
    /\ fired = {}
    /\ calls = <<>>
    /\ given = Null
    /\ returned = Null
    /\ started = Processes

Next ==
    \/ StartJob
    \/ \E j \in 1..MaxFirings : Worker(j)

Spec == Init /\ [][Next]_vars

\* The worker process runs: every enabled step of the queue and of
\* processSmsJob is eventually taken.
FairSpec == Spec /\ WF_vars(Next)

\* SpecRefire: up to MaxFirings firings of one pair, queued at any time and
\* processed concurrently; the pair is registered, parent and child have a
\* phone and the parent has opted the child in.
InitRefire ==
    /\ parent = [p \in Parents |->
                    IF p = "p1"
                    THEN [exists |-> TRUE, phoneNumber |-> ParentPhone,
                          timezone |-> "America/Los_Angeles"]
                    ELSE NoRow]
    /\ child = [c \in Children |->
                    IF c = "c1" THEN [exists |-> TRUE, phoneNumber |-> ChildPhone] ELSE NoRow]
    /\ preference = [p \in Parents |->
                    IF p = "p1" THEN [DefaultPreference EXCEPT !.includeChildInSms = TRUE]
                    ELSE NoRow]
    /\ canvasToken = [c \in Children |->
                    IF c = "c1" THEN [exists |-> TRUE, isValid |-> TRUE] ELSE NoRow]
    /\ parentChild = [pc \in Pairs |-> IF pc \in ExecPairs THEN ActiveLink ELSE NoRow]
    /\ started = Processes
    /\ InitQueue

NextRefire ==
    \/ Len(jobs) < MaxFirings /\ \E pc \in ExecPairs : triggerManualSms(pc[1], pc[2])
    \/ \E c \in Children : storeToken(c)
    \/ StartJob
    \/ \E j \in 1..MaxFirings : Worker(j)

SpecRefire == InitRefire /\ [][NextRefire]_vars

\* ------------------------------------------------------ the triggers firing

\* The rows of one registered pair: parent and child have a phone, the parent
\* has opted the child in, the token is valid.
PairRows ==
    /\ parent = [p \in Parents |->
                    IF p = "p1"
                    THEN [exists |-> TRUE, phoneNumber |-> ParentPhone,
                          timezone |-> "America/Los_Angeles"]
                    ELSE NoRow]
    /\ child = [c \in Children |->
                    IF c = "c1" THEN [exists |-> TRUE, phoneNumber |-> ChildPhone] ELSE NoRow]
    /\ preference = [p \in Parents |->
                    IF p = "p1" THEN [DefaultPreference EXCEPT !.includeChildInSms = TRUE]
                    ELSE NoRow]
    /\ canvasToken = [c \in Children |->
                    IF c = "c1" THEN [exists |-> TRUE, isValid |-> TRUE] ELSE NoRow]
    /\ parentChild = [pc \in Pairs |-> IF pc \in ExecPairs THEN ActiveLink ELSE NoRow]


\* Time passes: the next occurrence of the daily schedules comes due.
Tick ==
    /\ clock < MaxClock
    /\ clock' = clock + 1
    /\ UNCHANGED <<repeat, repeatJobs, installs, fired, calls, started>>
    /\ UNCHANGED dbVars
    /\ UNCHANGED execVars
    /\ UNCHANGED fnVars

\* A delayed instance of a repeatable job has come due: Bull moves it to the
\* wait list as a job with the data of the trigger and, when the repeat key is
\* still registered, adds the instance of the next occurrence.
Fire(inst) ==
    /\ inst \in repeatJobs
    /\ inst.at <= clock
    /\ jobs' = Append(jobs, NewJob(inst.key.jobId[2], inst.key.jobId[3]))
    /\ wait' = Append(wait, Len(jobs) + 1)
    /\ fired' = fired \cup
          {[key |-> inst.key, at |-> inst.at, job |-> Len(jobs) + 1,
            installsBefore |-> installs,
            active |-> ActivePair(inst.key.jobId[2], inst.key.jobId[3])]}
    /\ repeatJobs' = (repeatJobs \ {inst}) \cup
          (IF inst.key \in repeat THEN {Instance(inst.key, NextOccurrence(clock))} ELSE {})
    /\ UNCHANGED <<repeat, installs, clock, calls, started>>
    /\ UNCHANGED <<messages, canvasCalls, smsAccepted, faults, dbFaults>>
    /\ UNCHANGED dbVars
    /\ UNCHANGED fnVars

\* The instances there can be.
Instances ==
    {Instance(RepeatKey(JobIdOf(pc[1], pc[2]), buildCronExpression(t, d, tz), tz), at) :
        pc \in Pairs, t \in SendTimes, d \in SendDaysSet, tz \in Timezones,
        at \in 0..(MaxClock + 1)}

\* SpecOccur: the triggers of the registered pair over time - reconciliation,
\* edits of the preferences, occurrences coming due - with no worker running.
InitOccur ==
    /\ PairRows
    /\ started = {"server"}
    /\ InitQueue

NextOccur ==
    \/ scheduleAllDailySms
    \/ \E p \in Parents, t \in SendTimes, d \in SendDaysSet : EditPreference(p, t, d)
    \/ Tick
    \/ Len(jobs) < MaxFirings /\ \E inst \in Instances : Fire(inst)

SpecOccur == InitOccur /\ [][NextOccur]_vars

\* SpecLife: the registered pair from the installation of its trigger to its
\* deactivation, with the worker running.  The occurrences of the one daily
\* schedule are a day apart and a firing ends, retries included, within
\* minutes: an occurrence comes due when the firings before it have ended.
\* The trigger is installed once.
InitLife ==
    /\ PairRows
    /\ started = Processes
    /\ InitQueue

NextLife ==
    \/ repeat = {} /\ scheduleAllDailySms
    \/ \E p \in Parents, c \in Children : removeChild(p, c)
    \/ Tick
    \/ /\ Len(jobs) < MaxFirings
       /\ \A j \in JobIds : Terminal(j)
       /\ \E inst \in Instances : Fire(inst)
    \/ StartJob
    \/ \E j \in 1..MaxFirings : Worker(j)

SpecLife == InitLife /\ [][NextLife]_vars

\* ----------------------------------------------- the triggers of the pairs

\* SpecPairs: two parents, with or without their preferences, each linked to
\* both children; the triggers are installed for all pairs or for one, or
\* cancelled for one, at any time, between edits of the send time of p1 and
\* occurrences coming due.
InitPairs ==
    /\ parent = [p \in Parents |->
                    [exists |-> TRUE, phoneNumber |-> ParentPhone,
                     timezone |-> "America/Los_Angeles"]]
    /\ child = [c \in Children |-> [exists |-> TRUE, phoneNumber |-> Null]]
    /\ preference \in [Parents -> {NoRow, DefaultPreference}]
    /\ canvasToken = [c \in Children |-> [exists |-> TRUE, isValid |-> TRUE]]
    /\ parentChild = [pc \in Pairs |-> ActiveLink]
    /\ started = Processes
    /\ InitQueue

NextPairs ==
    \/ scheduleAllDailySms
    \/ \E pc \in Pairs : scheduleDailySmsForPair(pc[1], pc[2])
    \/ \E pc \in Pairs : cancelDailySmsForPair(pc[1], pc[2])
    \/ \E t \in SendTimes : EditPreference("p1", t, DefaultPreference.sendDays)
    \/ Tick

SpecPairs == InitPairs /\ [][NextPairs]_vars

\* ------------------------------------- scheduler calls, await by await

\* A call of scheduleDailySmsForPair or cancelDailySmsForPair is a chain of
\* awaits; the calls of concurrent requests interleave at them.  Nothing in
\* SchedulerService holds a lock.
CallsInFlight == {i \in 1..Len(calls) : calls[i].pc # "done"}

NewCall(op, parentId, childId) ==
    [op |-> op, parentId |-> parentId, childId |-> childId,
     pc |-> IF op = "install" THEN "read" ELSE "lookup",
     key |-> Null,
     overlaps |-> CallsInFlight # {}]

\* A request calls scheduleDailySmsForPair or cancelDailySmsForPair.
BeginCall(op, parentId, childId) ==
    /\ Len(calls) < MaxCalls
    /\ calls' = Append(calls, NewCall(op, parentId, childId))
    /\ UNCHANGED <<repeat, repeatJobs, installs, clock, fired, started>>
    /\ UNCHANGED dbVars
    /\ UNCHANGED execVars
    /\ UNCHANGED fnVars

\* await prisma.parent.findUnique(...), then the cron expression and the jobId.
ReadPreferences(i) ==
    /\ i \in 1..Len(calls)
    /\ calls[i].pc = "read"
    /\ LET parentId == calls[i].parentId
           prefs == preference[parentId]
       IN IF ~parent[parentId].exists \/ ~prefs.exists
          THEN calls' = [calls EXCEPT ![i].pc = "done"]    \* throw
          ELSE calls' = [calls EXCEPT
                  ![i].pc = "lookup",
                  ![i].key = RepeatKey(JobIdOf(parentId, calls[i].childId),
                                       buildCronExpression(prefs.sendTime, prefs.sendDays,
                                                           parent[parentId].timezone),
                                       parent[parentId].timezone)]
    /\ UNCHANGED <<repeat, repeatJobs, installs, clock, fired, started>>
    /\ UNCHANGED dbVars
    /\ UNCHANGED execVars
    /\ UNCHANGED fnVars

\* await getJob(jobId); if (job) await job.remove()
RemoveExisting(i) ==
    /\ i \in 1..Len(calls)
    /\ calls[i].pc = "lookup"
    /\ LET existingJob == getJob(JobIdOf(calls[i].parentId, calls[i].childId))
       IN repeatJobs' = IF existingJob # Null THEN removeJob(existingJob) ELSE repeatJobs
    /\ calls' = [calls EXCEPT ![i].pc = IF calls[i].op = "install" THEN "add" ELSE "done"]
    /\ UNCHANGED <<repeat, installs, clock, fired, started>>
    /\ UNCHANGED dbVars
    /\ UNCHANGED execVars
    /\ UNCHANGED fnVars

\* await this.dailySmsQueue.add('send-sms', data, {repeat: {cron, tz}, jobId})
AddRepeatable(i) ==
    /\ i \in 1..Len(calls)
    /\ calls[i].pc = "add"
    /\ repeat' = repeat \cup {calls[i].key}
    /\ repeatJobs' = repeatJobs \cup {Instance(calls[i].key, NextOccurrence(clock))}
    /\ calls' = [calls EXCEPT ![i].pc = "done"]
    /\ UNCHANGED <<installs, clock, fired, started>>
    /\ UNCHANGED dbVars
    /\ UNCHANGED execVars
    /\ UNCHANGED fnVars

\* SpecRace: concurrent scheduler calls for the registered pair, and edits of
\* the parent's preferences.
InitRace ==
    /\ PairRows
    /\ started = {"server"}
    /\ InitQueue

NextRace ==
    \/ \E op \in {"install", "cancel"}, p \in Parents, c \in Children :
          BeginCall(op, p, c)
    \/ \E i \in 1..MaxCalls : ReadPreferences(i)
    \/ \E i \in 1..MaxCalls : RemoveExisting(i)
    \/ \E i \in 1..MaxCalls : AddRepeatable(i)
    \/ \E p \in Parents, t \in SendTimes, d \in SendDaysSet : EditPreference(p, t, d)

SpecRace == InitRace /\ [][NextRace]_vars

\* ----------------------------------------------------------- the worker pool

\* SpecPool: the wait list and the pool of the worker when more firings arrive
\* than the pool takes.  Pair (p1, c1) has two recipients and its trigger,
\* installed one occurrence ago, is due; pair (p2, c2) has no phone number and
\* is fired by manual triggers.  The Canvas API and the provider have their
\* last adverse answers left and the database has its failing inserts left.
PoolKey ==
    RepeatKey(JobIdOf("p1", "c1"),
              buildCronExpression(DefaultPreference.sendTime, DefaultPreference.sendDays,
                                  "America/Los_Angeles"),
              "America/Los_Angeles")

ManualPairs == {<<"p2", "c2">>}

InitPool ==
    /\ parent = [p \in Parents |->
                    [exists |-> TRUE,
                     phoneNumber |-> IF p = "p1" THEN ParentPhone ELSE Null,
                     timezone |-> "America/Los_Angeles"]]
    /\ child = [c \in Children |->
                    [exists |-> TRUE, phoneNumber |-> IF c = "c1" THEN ChildPhone ELSE Null]]
    /\ preference = [p \in Parents |->
                    IF p = "p1" THEN [DefaultPreference EXCEPT !.includeChildInSms = TRUE]
                    ELSE DefaultPreference]
    /\ canvasToken = [c \in Children |-> [exists |-> TRUE, isValid |-> TRUE]]
    /\ parentChild = [pc \in Pairs |->
                    IF pc \in ExecPairs \cup ManualPairs THEN ActiveLink ELSE NoRow]
    /\ started = Processes
    /\ messages = {}
    /\ jobs = <<>>
    /\ wait = <<>>
    /\ canvasCalls = {}
    /\ smsAccepted = {}
    /\ faults = MaxFaults - 1
    /\ dbFaults = MaxDbFaults
    /\ installs = 1
    /\ clock = 1
    /\ fired = {}
    /\ calls = <<>>
    /\ given = Null
    /\ returned = Null
    /\ repeat = {PoolKey}
    /\ repeatJobs = {Instance(PoolKey, clock)}

NextPool ==
    \/ Len(jobs) < MaxPool /\ \E pc \in ManualPairs : triggerManualSms(pc[1], pc[2])
    \/ Len(jobs) < MaxPool /\ \E inst \in Instances : Fire(inst)
    \/ StartJob
    \/ \E j \in 1..MaxPool : Worker(j)

SpecPool == InitPool /\ [][NextPool]_vars

\* --------------------------------------------------- delivery status updates

\* LogMessageParams.status
Statuses == {"pending", "sent", "failed", "delivered"}

\* An updateMany without its where clause: every row is updated.
updateMessageStatusOfAll(twilioSid, status) ==
    /\ messages' = {[m EXCEPT !.status = status] : m \in messages}
    /\ UNCHANGED <<jobs, wait, canvasCalls, smsAccepted, faults, dbFaults>>
    /\ UNCHANGED dbVars
    /\ UNCHANGED schedVars
    /\ UNCHANGED fnVars

\* messageService.updateMessageStatus(twilioSid, status):
\* updateMany({where: {twilioSid}, data: {status}}).
updateMessageStatus(twilioSid, status) ==
    /\ messages' = {IF m.twilioSid = twilioSid THEN [m EXCEPT !.status = status] ELSE m :
                        m \in messages}
    /\ UNCHANGED <<jobs, wait, canvasCalls, smsAccepted, faults, dbFaults>>
    /\ UNCHANGED dbVars
    /\ UNCHANGED schedVars
    /\ UNCHANGED fnVars

\* SpecStatus: one firing of the registered pair, and the status updates of
\* the records it writes.
InitStatus ==
    /\ PairRows
    /\ started = Processes
    /\ messages = {}
    /\ repeat = {}
    /\ repeatJobs = {}
    /\ \E pc \in ExecPairs : jobs = <<NewJob(pc[1], pc[2])>>
    /\ wait = <<1>>
    /\ canvasCalls = {}
    /\ smsAccepted = {}
    /\ faults = 0
    /\ dbFaults = 0
    /\ installs = 0
    /\ clock = 0
    /\ fired = {}
    /\ calls = <<>>
    /\ given = Null
    /\ returned = Null

\* The sids a status callback may carry: those of the records written, and
\* one that no record has.
UnknownSid == <<"SM", "unknown">>
CallbackSids == {x.twilioSid : x \in {m \in messages : m.twilioSid # Null}} \cup {UnknownSid}

NextStatus ==
    \/ StartJob
    \/ \E j \in 1..MaxFirings : Worker(j)
    \/ \E twilioSid \in CallbackSids, status \in Statuses :
          updateMessageStatus(twilioSid, status)

SpecStatus == InitStatus /\ [][NextStatus]_vars

\* ------------------------------------- a manual firing beside a scheduled one

IsPrefix(s, t) == Len(s) <= Len(t) /\ SubSeq(t, 1, Len(s)) = s

\* The firings take their steps in turn and meet the same answers of the
\* collaborators: no firing is more than a step ahead of another, and the
\* steps of the one behind are those the one ahead has taken.
InStep ==
    \A j, k \in JobIds :
        /\ Len(jobs[j].trace) <= Len(jobs[k].trace) + 1
        /\ IsPrefix(jobs[j].trace, jobs[k].trace) \/ IsPrefix(jobs[k].trace, jobs[j].trace)

\* SpecParity: the trigger of the registered pair is due and fires, and a
\* manual trigger is called for the same pair; the worker processes the two
\* firings side by side, against the same answers.
InitParity ==
    /\ PairRows
    /\ started = Processes
    /\ messages = {}
    /\ jobs = <<>>
    /\ wait = <<>>
    /\ canvasCalls = {}
    /\ smsAccepted = {}
    /\ faults = 0
    /\ dbFaults = 0
    /\ installs = 1
    /\ clock = 1
    /\ fired = {}
    /\ calls = <<>>
    /\ given = Null
    /\ returned = Null
    /\ repeat = {PoolKey}
    /\ repeatJobs = {Instance(PoolKey, clock)}

NextParity ==
    \/ /\ \A j \in JobIds : jobs[j].priority = 0
       /\ \E pc \in ExecPairs : triggerManualSms(pc[1], pc[2])
       /\ InStep'
    \/ (\E inst \in Instances : Fire(inst)) /\ InStep'
    \/ StartJob /\ InStep'
    \/ \E j \in 1..MaxFirings : Worker(j) /\ InStep'

SpecParity == InitParity /\ [][NextParity]_vars

\* ------------------------------------------------- the worker process stops

\* Bull's settings.maxStalledCount, left at its default.
MaxStalledCount == 1

\* The worker process stops without closing the queue (it is killed, or exits
\* on an error): the attempts in flight are gone, their jobs stay in the
\* active list of the queue with a lock nobody renews.  The triggers and the
\* jobs are in Redis and stay.
Crash ==
    /\ "worker" \in started
    /\ \E j \in ActiveJobs : jobs[j].pc # "stalled"
    /\ started' = started \ {"worker"}
    /\ jobs' = [j \in JobIds |->
                  IF jobs[j].state = "active" /\ jobs[j].pc # "stalled"
                  THEN [jobs[j] EXCEPT !.pc = "stalled", !.trace = Append(@, <<"crash">>)]
                  ELSE jobs[j]]
    /\ UNCHANGED <<messages, wait, canvasCalls, smsAccepted, faults, dbFaults>>
    /\ UNCHANGED <<repeat, repeatJobs, installs, clock, fired, calls>>
    /\ UNCHANGED dbVars
    /\ UNCHANGED fnVars

\* The stalled-jobs check of the queue of the restarted worker: an active job
\* whose lock has expired goes back to the wait list, to be processed again
\* from the start, or is failed when it stalled more than maxStalledCount times.
moveStalledJobsToWait(j) ==
    /\ "worker" \in started
    /\ At(j, "stalled")
    /\ IF StalledCount(j) > MaxStalledCount
       THEN /\ jobs' = Traced([jobs EXCEPT ![j].state = "failed", ![j].pc = "idle"],
                               j, <<"stalled">>)
            /\ UNCHANGED wait
       ELSE /\ jobs' = Traced([jobs EXCEPT ![j].state = "waiting", ![j].pc = "idle"],
                               j, <<"stalled">>)
            /\ wait' = <<j>> \o wait
    /\ UNCHANGED <<messages, canvasCalls, smsAccepted, faults, dbFaults>>
    /\ UNCHANGED dbVars
    /\ UNCHANGED schedVars
    /\ UNCHANGED fnVars

\* SpecCrash: the trigger of the registered pair is due; the worker processes
\* its firing, stops and is started again.
InitCrash ==
    /\ PairRows
    /\ started = Processes
    /\ messages = {}
    /\ jobs = <<>>
    /\ wait = <<>>
    /\ canvasCalls = {}
    /\ smsAccepted = {}
    /\ faults = MaxFaults - 1
    /\ dbFaults = MaxDbFaults
    /\ installs = 1
    /\ clock = 1
    /\ fired = {}
    /\ calls = <<>>
    /\ given = Null
    /\ returned = Null
    /\ repeat = {PoolKey}
    /\ repeatJobs = {Instance(PoolKey, clock)}

NextCrash ==
    \/ Crash
    \/ startWorker
    \/ \E j \in 1..MaxFirings : moveStalledJobsToWait(j)
    \/ \E inst \in Instances : Fire(inst)
    \/ StartJob
    \/ \E j \in 1..MaxFirings : Worker(j)

SpecCrash == InitCrash /\ [][NextCrash]_vars

\* ------------------------------------------------- addresses that are not valid

\* Phone numbers that fail /^\+[1-9]\d{1,14}$/: no leading '+', a country
\* digit 0, a single digit.
InvalidPhones == {<<"1", "5", "5">>, <<"+", "0", "5">>, <<"+", "1">>}

\* SpecAddr: one firing of the registered pair, the phone numbers of parent
\* and child as they were typed in, valid or not.
InitAddr ==
    /\ parent \in [Parents ->
          {NoRow} \cup {[exists |-> TRUE, phoneNumber |-> ph, timezone |-> "America/Los_Angeles"] :
                           ph \in {ParentPhone} \cup InvalidPhones}]
    /\ child \in [Children ->
          {NoRow} \cup {[exists |-> TRUE, phoneNumber |-> ph] :
                           ph \in {ChildPhone} \cup InvalidPhones}]
    /\ \A p \in Parents : parent[p].exists <=> p = "p1"
    /\ \A c \in Children : child[c].exists <=> c = "c1"
    /\ preference = [p \in Parents |->
                    IF p = "p1" THEN [DefaultPreference EXCEPT !.includeChildInSms = TRUE]
                    ELSE NoRow]
    /\ canvasToken = [c \in Children |->
                    IF c = "c1" THEN [exists |-> TRUE, isValid |-> TRUE] ELSE NoRow]
    /\ parentChild = [pc \in Pairs |-> IF pc \in ExecPairs THEN ActiveLink ELSE NoRow]
    /\ started = Processes
    /\ messages = {}
    /\ repeat = {}
    /\ repeatJobs = {}
    /\ \E pc \in ExecPairs : jobs = <<NewJob(pc[1], pc[2])>>
    /\ wait = <<1>>
    /\ canvasCalls = {}
    /\ smsAccepted = {}
    /\ faults = 0
    /\ dbFaults = 0
    /\ installs = 0
    /\ clock = 0
    /\ fired = {}
    /\ calls = <<>>
    /\ given = Null
    /\ returned = Null

NextAddr ==
    \/ StartJob
    \/ \E j \in 1..MaxFirings : Worker(j)

SpecAddr == InitAddr /\ [][NextAddr]_vars

\* ------------------------------------------ CanvasService: parse and sort

\* assignment.due_at: an ISO 8601 string in UTC, here <<day, minute of the
\* day>>, the part before the 'T' and the part after it; null when the
\* assignment has no due date.
DueAts == {<<18, 1439>>, <<20, 600>>}

MinutesPerDay == 1440

\* new Date(dueAt).getTime(), in minutes
getTime(dueAt) == dueAt[1] * MinutesPerDay + dueAt[2]

\* formatDueDate(isoDateString): isoDateString.split('T')[0]
formatDueDate(isoDateString) == IF isoDateString = Null THEN Null ELSE isoDateString[1]

Titles == {"A", "B"}
CourseIds == {101, 102}

\* CanvasTodoItem: an item of the response of /api/v1/users/self/todo.
CanvasTodoItems ==
    {[type |-> "submitting", assignment |-> Null]} \cup
    {[type |-> "submitting",
      assignment |-> [name |-> n, due_at |-> d, course_id |-> c]] :
        n \in Titles, d \in DueAts \cup {Null}, c \in CourseIds}

\* course_id.toString(): the decimal digits of the number.
toString(n) == CASE n = 101 -> "101" [] n = 102 -> "102"

\* The map of parseTodoItems: a ParsedTodoItem of a CanvasTodoItem.
ParseItem(item) ==
    [type |-> item.type,
     assignmentName |-> item.assignment.name,
     dueAt |-> item.assignment.due_at,
     dueDate |-> formatDueDate(item.assignment.due_at),
     courseId |-> toString(item.assignment.course_id)]

\* The filter of parseTodoItems: item.assignment && item.assignment.due_at
HasDueDate(item) == item.assignment # Null /\ item.assignment.due_at # Null

\* A parse that loses the last item of the response.
RECURSIVE parseTodoItemsButLast(_)
parseTodoItemsButLast(items) ==
    IF Len(items) <= 1 THEN <<>>
    ELSE (IF HasDueDate(Head(items)) THEN <<ParseItem(Head(items))>> ELSE <<>>)
         \o parseTodoItemsButLast(Tail(items))

\* parseTodoItems(items): items.filter(...).map(...)
RECURSIVE parseTodoItems(_)
parseTodoItems(items) ==
    IF items = <<>> THEN <<>>
    ELSE (IF HasDueDate(Head(items)) THEN <<ParseItem(Head(items))>> ELSE <<>>)
         \o parseTodoItems(Tail(items))

\* The comparator of sortByDueDate: dateA.getTime() - dateB.getTime()
CompareDue(a, b) == getTime(a.dueAt) - getTime(b.dueAt)

\* Array.prototype.sort is stable: an item goes behind the items that compare
\* equal to it and came before it.
RECURSIVE InsertSorted(_, _)
InsertSorted(sorted, x) ==
    IF sorted = <<>> THEN <<x>>
    ELSE IF CompareDue(Head(sorted), x) <= 0
    THEN <<Head(sorted)>> \o InsertSorted(Tail(sorted), x)
    ELSE <<x>> \o sorted

\* sortByDueDate(items): items.sort((a, b) => ...)
RECURSIVE sortByDueDate(_)
sortByDueDate(items) ==
    IF items = <<>> THEN <<>>
    ELSE InsertSorted(sortByDueDate(SubSeq(items, 1, Len(items) - 1)), items[Len(items)])

\* What fetchTodoItems returns for the response data of the Canvas API.
SortedTodoItems(data) == sortByDueDate(parseTodoItems(data))

\* --------------------------------------------- FormattingService: the text

\* A message as its lines, each line the pieces it is put together from; the
\* empty line is <<>>.
BlankLine == <<>>

\* padStart(2, '0') of a number below 100: its two digits.
Pad2(n) == <<n \div 10, n % 10>>

\* A date with the month as its index: the month is not counted from 1.
formatDateMonthIndex(date) ==
    <<date.year, "-", Pad2(date.month), "-", Pad2(date.day)>>

\* formatDateYYYYMMDD(date); date.month is getMonth(), counted from 0.
formatDateYYYYMMDD(date) ==
    <<date.year, "-", Pad2(date.month + 1), "-", Pad2(date.day)>>

\* getCourseMap(childId): the active rows of table course of the child.
getCourseMap(childId, courses) ==
    {row \in courses : row.childId = childId /\ row.isActive}

\* courseMap[todo.courseId] || `Course ${todo.courseId}`, as the pieces of
\* the string.
CourseName(courseMap, courseId) ==
    IF \E row \in courseMap : row.canvasCourseId = courseId
    THEN <<(CHOOSE row \in courseMap : row.canvasCourseId = courseId).courseName>>
    ELSE <<"Course ", courseId>>

\* The four lines of one item and the empty line after them.
Block(todo, courseMap) ==
    <<<<"Course: ">> \o CourseName(courseMap, todo.courseId),
      <<"Assignment: ", todo.assignmentName>>,
      <<"Type: ", todo.type>>,
      <<"Due: ", todo.dueDate>>,
      BlankLine>>

RECURSIVE Blocks(_, _)
Blocks(todos, courseMap) ==
    IF todos = <<>> THEN <<>>
    ELSE Block(Head(todos), courseMap) \o Blocks(Tail(todos), courseMap)

HeaderLines(date) ==
    << <<"Assignments for ", formatDateYYYYMMDD(date), ":">>, BlankLine >>

\* A formatter without the early return for an empty list.
formatMessageNoEarlyReturn(childId, todos, currentDate, courses) ==
    [value |-> HeaderLines(currentDate) \o Blocks(todos, getCourseMap(childId, courses)),
     consulted |-> TRUE]

\* formatMessage(childId, todos, currentDate) over table course: the text, and
\* whether getCourseMap was called.
formatMessageText(childId, todos, currentDate, courses) ==
    IF Len(todos) = 0
    THEN [value |-> HeaderLines(currentDate) \o << <<"No assignments due.">> >>,
          consulted |-> FALSE]
    ELSE [value |-> HeaderLines(currentDate) \o Blocks(todos, getCourseMap(childId, courses)),
          consulted |-> TRUE]

\* ------------------------------------------- the functions by themselves

\* Lists of at most n elements of S.
ListsOf(S, n) == UNION {[1..k -> S] : k \in 0..n}

ParsedTodoItems == {ParseItem(item) : item \in {i \in CanvasTodoItems : HasDueDate(i)}}

\* Dates as new Date() gives them: year, getMonth(), getDate().
Dates == {[year |-> 2026, month |-> 1, day |-> 18], [year |-> 2026, month |-> 10, day |-> 5]}

\* Table course: no row; a label for course 101 of c1; a deactivated label
\* for course 101 of c1 and a label for course 102 of another child.
CourseRow(childId, canvasCourseId, courseName, isActive) ==
    [childId |-> childId, canvasCourseId |-> canvasCourseId,
     courseName |-> courseName, isActive |-> isActive]
CourseTables ==
    {{},
     {CourseRow("c1", "101", "Math", TRUE)},
     {CourseRow("c1", "101", "Math", FALSE), CourseRow("c2", "102", "Art", TRUE)}}

\* The calls studied: fetchTodoItems on a response, formatMessage on a list,
\* countSmsSegments on a body (its length and whether a character is not ASCII).
Calls ==
    {[fn |-> "fetchTodoItems", data |-> d] : d \in ListsOf(CanvasTodoItems, MaxItems)}
    \cup {[fn |-> "formatMessage", childId |-> "c1", todos |-> t, currentDate |-> date,
            courses |-> c] :
              t \in ListsOf(ParsedTodoItems, MaxItems), date \in Dates, c \in CourseTables}
    \cup {[fn |-> "countSmsSegments", message |-> [len |-> l, hasUnicode |-> u]] :
              l \in 0..MaxBody, u \in BOOLEAN}

FetchReturns ==
    /\ given.fn = "fetchTodoItems"
    /\ returned = Null
    /\ returned' = [value |-> SortedTodoItems(given.data)]
    /\ UNCHANGED given
    /\ UNCHANGED dbVars
    /\ UNCHANGED schedVars
    /\ UNCHANGED execVars

FormatReturns ==
    /\ given.fn = "formatMessage"
    /\ returned = Null
    /\ returned' = formatMessageText(given.childId, given.todos, given.currentDate,
                                     given.courses)
    /\ UNCHANGED given
    /\ UNCHANGED dbVars
    /\ UNCHANGED schedVars
    /\ UNCHANGED execVars

CountReturns ==
    /\ given.fn = "countSmsSegments"
    /\ returned = Null
    /\ returned' = [value |-> countSmsSegments(given.message)]
    /\ UNCHANGED given
    /\ UNCHANGED dbVars
    /\ UNCHANGED schedVars
    /\ UNCHANGED execVars

\* The keys of dayMap.
WeekDays == {"Sun", "Mon", "Tue", "Wed", "Thu", "Fri", "Sat"}

\* The values of send_days: the lists of k different days, in every order.
RECURSIVE DayListsOfLen(_)
DayListsOfLen(k) ==
    IF k = 0 THEN {<<>>}
    ELSE UNION {{Append(p, d) : d \in WeekDays \ {p[i] : i \in 1..Len(p)}} :
                    p \in DayListsOfLen(k - 1)}
DayLists == UNION {DayListsOfLen(k) : k \in 1..Cardinality(WeekDays)}

\* SpecCron: one call of buildCronExpression, on every send time of the model
\* and every list of days.
CronCalls ==
    {[fn |-> "buildCronExpression", sendTime |-> t, sendDays |-> d, timezone |-> tz] :
        t \in SendTimes, d \in DayLists, tz \in Timezones}

CronReturns ==
    /\ given.fn = "buildCronExpression"
    /\ returned = Null
    /\ returned' = [value |-> buildCronExpression(given.sendTime, given.sendDays,
                                                  given.timezone)]
    /\ UNCHANGED given
    /\ UNCHANGED dbVars
    /\ UNCHANGED schedVars
    /\ UNCHANGED execVars

InitCron ==
    /\ PairRows
    /\ started = Processes
    /\ messages = {}
    /\ repeat = {}
    /\ repeatJobs = {}
    /\ jobs = <<>>
    /\ wait = <<>>
    /\ canvasCalls = {}
    /\ smsAccepted = {}
    /\ faults = 0
    /\ dbFaults = 0
    /\ installs = 0
    /\ clock = 0
    /\ fired = {}
    /\ calls = <<>>
    /\ given \in CronCalls
    /\ returned = Null

NextCron == CronReturns

SpecCron == InitCron /\ [][NextCron]_vars

\* SpecFn: one call of one of the functions, on every argument of the bounds.
InitFn ==
    /\ PairRows
    /\ started = Processes
    /\ messages = {}
    /\ repeat = {}
    /\ repeatJobs = {}
    /\ jobs = <<>>
    /\ wait = <<>>
    /\ canvasCalls = {}
    /\ smsAccepted = {}
    /\ faults = 0
    /\ dbFaults = 0
    /\ installs = 0
    /\ clock = 0
    /\ fired = {}
    /\ calls = <<>>
    /\ given \in Calls
    /\ returned = Null

NextFn ==
    \/ FetchReturns
    \/ FormatReturns
    \/ CountReturns

SpecFn == InitFn /\ [][NextFn]_vars

\* ------------------------------------------------- what the claims speak of

\* The Occurrence records a firing wrote.
RecordsOf(j) == {m \in messages : m.job = j}
SentRecords(j, role) ==
    {m \in RecordsOf(j) : m.status = "sent" /\ m.recipientType = role}
FailedRecords(j) == {m \in RecordsOf(j) : m.status = "failed"}

\* The sends of a firing the provider accepted, and its calls of the Canvas API.
AcceptedSends(j, role) == {a \in smsAccepted : a.job = j /\ a.role = role}
CallsOf(j) == {c \in canvasCalls : c[1] = j}

\* The recipients of a firing: the parent with a phone number, the child with
\* a phone number whose parent opted in.
IsRecipient(j, role) ==
    LET p == parent[jobs[j].data.parentId]
        c == child[jobs[j].data.childId]
        prefs == preference[jobs[j].data.parentId]
    IN IF role = "parent"
       THEN p.exists /\ p.phoneNumber # Null
       ELSE c.exists /\ c.phoneNumber # Null /\ prefs.exists /\ prefs.includeChildInSms
Roles == {"parent", "child"}
TwoRecipients(j) == \A role \in Roles : IsRecipient(j, role)

TokenInvalid(childId) == canvasToken[childId].exists /\ ~canvasToken[childId].isValid

\* The installed recurring triggers of a pair.
TriggersOf(parentId, childId) == {k \in repeat : k.jobId = JobIdOf(parentId, childId)}

\* C1: after any sequence of installs and removes, recurrence changes included,
\* at most one installed recurring trigger exists for each (owner, subject) pair.
C1_AtMostOneTrigger ==
    \A p \in Parents, c \in Children : Cardinality(TriggersOf(p, c)) <= 1


\* C2: across all attempts of one firing, each recipient is sent the message
\* successfully at most once.
C2_AtMostOneSuccessfulSend ==
    \A j \in JobIds : \A role \in Roles : Cardinality(AcceptedSends(j, role)) <= 1

\* C3: a firing whose fetch fails once with a network error and that succeeds on
\* the retry ends with exactly one 'sent' record for each recipient (and none
\* for who is no recipient).
C3_RetryThenSucceedOneSent ==
    \A j \in JobIds :
        (jobs[j].state = "completed" /\ jobs[j].errors = <<"network">>) =>
            \A role \in Roles :
                Cardinality(SentRecords(j, role)) = IF IsRecipient(j, role) THEN 1 ELSE 0

C3_Witness ==
    \E j \in JobIds :
        /\ jobs[j].state = "completed"
        /\ jobs[j].errors = <<"network">>
        /\ TwoRecipients(j)
        /\ \A role \in Roles : Cardinality(SentRecords(j, role)) = 1

\* C4: a firing whose three attempts all fail with a rate-limit error ends
\* failed with exactly one 'failed' record for the owner.
C4_ExhaustedRetriesOneFailed ==
    \A j \in JobIds :
        (jobs[j].state = "failed"
            /\ jobs[j].errors = <<"ratelimit", "ratelimit", "ratelimit">>
            /\ IsRecipient(j, "parent")) =>
                Cardinality(FailedRecords(j)) = 1

\* C5: in an attempt of a firing with two recipients in which the send to one
\* recipient fails, the other recipient's send is performed and recorded 'sent',
\* and the failure is recorded 'failed' against the recipient whose send failed.
C5_PerRecipientIsolation ==
    \A j \in JobIds :
        (At(j, "rethrow") /\ TwoRecipients(j)
            /\ jobs[j].error \in {"sendParent", "sendChild"}) =>
            LET failedRole == IF jobs[j].error = "sendParent" THEN "parent" ELSE "child"
                otherRole == IF failedRole = "parent" THEN "child" ELSE "parent"
            IN /\ \E m \in SentRecords(j, otherRole) : m.attempt = Attempt(j)
               /\ \E m \in FailedRecords(j) :
                     m.attempt = Attempt(j) /\ m.recipientType = failedRole

\* C6: no attempt in which the owner's send was made and recorded ends as a
\* failure of the job because the subject's send failed.
C6_SecondaryFailureStillCompletes ==
    \A j \in JobIds : \A i \in 1..Len(jobs[j].errors) :
        ~(/\ jobs[j].errors[i] = "sendChild"
          /\ \E m \in SentRecords(j, "parent") : m.attempt = i)

\* C7: a firing is attempted at most 3 times, a failed attempt is retried after
\* an exponential backoff that starts at one minute, and every firing reaches
\* completed or failed and stays there.
C7_BoundedRetryWithBackoff ==
    /\ [](\A j \in JobIds :
            /\ jobs[j].attemptsMade <= Attempts
            /\ jobs[j].state \in {"waiting", "active", "delayed"} =>
                   jobs[j].attemptsMade < Attempts
            /\ jobs[j].state = "failed" => jobs[j].attemptsMade = Attempts
            /\ (jobs[j].state = "delayed" /\ jobs[j].attemptsMade = 1) =>
                   jobs[j].delay = BackoffDelay
            /\ (jobs[j].state = "delayed" /\ jobs[j].attemptsMade > 1) =>
                   jobs[j].delay >= 2 * BackoffDelay)
    /\ [][\A j \in JobIds : Terminal(j) => jobs'[j] = jobs[j]]_vars
    /\ \A j \in 1..MaxFirings : [](j \in JobIds => <>(j \in JobIds /\ Terminal(j)))

C7_Witness ==
    \E j \in JobIds :
        /\ jobs[j].state = "failed"
        /\ jobs[j].attemptsMade = Attempts
        /\ Len(jobs[j].errors) = Attempts

\* C8: a firing one of whose attempts was rejected with a 401 has the token
\* marked invalid, is failed for good and has called the Canvas API once.
C8_AuthFailureNotRetried ==
    \A j \in JobIds :
        (\E i \in 1..Len(jobs[j].errors) : jobs[j].errors[i] = "auth") =>
            /\ jobs[j].state = "failed"
            /\ Cardinality(CallsOf(j)) = 1

\* C9: while the token of a child is marked invalid, a later firing of that
\* child (one that makes its first attempt after the firings that called the
\* Canvas API before it have ended) does not call the Canvas API.
C9_InvalidTokenShortCircuits ==
    [][\A j \in JobIds :
          (/\ TokenInvalid(jobs[j].data.childId)
           /\ jobs[j].attemptsMade = 0
           /\ \A k \in JobIds \ {j} : CallsOf(k) # {} => Terminal(k)) =>
              {c \in canvasCalls' : c[1] = j} = CallsOf(j)]_vars

\* C10: every firing that ends failed has left at least one Occurrence record.
C10_NoSilentFailure ==
    \A j \in JobIds : jobs[j].state = "failed" => RecordsOf(j) # {}

\* The order of the delivery statuses: pending, then sent, then delivered, or
\* pending, then failed.
Forward(from, to) ==
    \/ from = to
    \/ <<from, to>> \in {<<"pending", "sent">>, <<"pending", "delivered">>,
                         <<"sent", "delivered">>, <<"pending", "failed">>}

\* C11: the status of every Occurrence record only moves forward along
\* pending, sent, delivered or pending, failed: in every step every record is
\* still there, unchanged but for a status that is the same or a later one.
C11_StatusMonotonic ==
    [][\A m \in messages :
          \E m2 \in messages' :
              /\ [m2 EXCEPT !.status = m.status] = m
              /\ Forward(m.status, m2.status)]_vars

\* C12: when the startup of the worker process completes, every active pair
\* (of a parent with preferences) has an installed trigger.
C12_StartupInstallsMissing ==
    [][startWorker =>
          \A pc \in Pairs :
              (ActivePair(pc[1], pc[2]) /\ preference[pc[1]].exists) =>
                  TriggersOf(pc[1], pc[2])' # {}]_vars

\* C13: when the startup of the worker process completes, no trigger exists
\* for a pair that is not active.
C13_StartupRemovesOrphans ==
    [][startWorker =>
          \A pc \in Pairs : ~ActivePair(pc[1], pc[2]) => TriggersOf(pc[1], pc[2])' = {}]_vars

\* C15: after cancelDailySmsForPair(parentId, childId) the pair has no
\* installed recurring trigger, whether it had one or not.
C15_RemoveDeletesTrigger ==
    [][\A p \in Parents, c \in Children :
          cancelDailySmsForPair(p, c) => TriggersOf(p, c)' = {}]_vars

\* C18: when POST /children has added a child for a parent (with preferences),
\* a recurring trigger is installed for the pair.
C18_AddChildInstallsTrigger ==
    [][\A p \in Parents, c \in Children, ph \in {Null, ChildPhone} :
          (addChild(p, c, ph) /\ preference[p].exists) => TriggersOf(p, c)' # {}]_vars

\* A firing for which no recipient resolves: the rows are there, the parent has
\* no phone number and the child is no opted-in recipient.
NoRecipient(j) ==
    /\ parent[jobs[j].data.parentId].exists
    /\ child[jobs[j].data.childId].exists
    /\ canvasToken[jobs[j].data.childId].exists
    /\ \A role \in Roles : ~IsRecipient(j, role)

\* C19: a firing for which no recipient resolves does not fetch (it makes no
\* call of the Canvas API), is neither retried nor failed, and completes.
C19_NoRecipientCompletesDirectly ==
    \A j \in JobIds :
        NoRecipient(j) =>
            /\ CallsOf(j) = {}
            /\ jobs[j].errors = <<>>
            /\ jobs[j].state \in {"waiting", "active", "completed"}
            /\ jobs[j].state = "active" => jobs[j].pc \in {"fetch", "return"}

\* C14: once DELETE /children/:childId has deactivated a pair, no message is
\* sent for it by a firing that came due after the deactivation: every accepted
\* send belongs to a firing that came due while the pair was active.
C14_NoSendAfterDeactivation ==
    \A a \in smsAccepted : \A f \in fired : f.job = a.job => f.active

\* C17: an occurrence of a trigger fires at most once, and no step - the
\* reconciliation in particular - adds an instance for an occurrence of the
\* pair that has already fired.
C17_ReconcileNeverRefires ==
    /\ [](\A f1, f2 \in fired : (f1.key = f2.key /\ f1.at = f2.at) => f1.job = f2.job)
    /\ [][\A inst \in repeatJobs' \ repeatJobs : \A f \in fired :
             ~(inst.key.jobId = f.key.jobId /\ inst.at = f.at)]_vars

C17_Witness ==
    \E f \in fired :
        /\ installs > f.installsBefore
        /\ \E inst \in repeatJobs : inst.key = f.key /\ inst.at > f.at

\* C16: when concurrent install and remove calls for a pair have all returned,
\* the pair has at most one installed trigger.
C16_SerializedPerKey ==
    \A pc \in Pairs :
        (/\ CallsInFlight = {}
         /\ \E i \in 1..Len(calls) :
               /\ calls[i].overlaps
               /\ <<calls[i].parentId, calls[i].childId>> = pc) =>
            Cardinality(TriggersOf(pc[1], pc[2])) <= 1

\* The jobs in the wait list.
Waiting == {wait[i] : i \in 1..Len(wait)}

\* C20: at most 5 firings are executed at the same time, a firing that arrives
\* is put behind the firings already waiting, and the firing that is started is
\* the one that has waited longest, the head of the wait list.
C20_CapAndFifo ==
    [][/\ Cardinality(ActiveJobs)' <= Concurrency
       /\ \A j \in 1..MaxPool :
             (j \notin Waiting /\ j \in Waiting') => wait' = Append(wait, j)
       /\ \A j \in JobIds :
             (jobs[j].state = "waiting" /\ jobs'[j].state = "active") =>
                 (wait # <<>> /\ j = Head(wait) /\ wait' = Tail(wait))]_vars

\* What a firing has been through and has done: its job but for the priority
\* and the numbers that name it, the records it wrote, the sends the provider
\* accepted and the attempts that called the Canvas API.
View(j) ==
    [job |-> [jobs[j] EXCEPT !.priority = 0, !.sid = (@ # Null)],
     records |-> {[m EXCEPT !.job = 0, !.twilioSid = (@ # Null)] : m \in RecordsOf(j)},
     sends |-> {[a EXCEPT !.job = 0] : a \in {x \in smsAccepted : x.job = j}},
     fetches |-> {c[2] : c \in CallsOf(j)}]

Manual(j) == jobs[j].priority = ManualPriority
Scheduled(j) == \E f \in fired : f.job = j

\* C21: a manually triggered firing and a firing of the recurring trigger for
\* the same pair that have taken the same steps against the same answers of
\* the collaborators are in the same state, with the same attempts, backoff
\* and errors, the same sends and the same Occurrence records.
C21_ManualSamePipeline ==
    \A j, k \in JobIds :
        (/\ Manual(j) /\ Scheduled(k)
         /\ jobs[j].data = jobs[k].data
         /\ jobs[j].trace = jobs[k].trace) => View(j) = View(k)

C21_Witness ==
    \E j, k \in JobIds :
        /\ Manual(j) /\ Scheduled(k)
        /\ jobs[j].trace = jobs[k].trace
        /\ jobs[j].state = "completed" /\ jobs[k].state = "completed"
        /\ Len(jobs[j].errors) = 1
        /\ \A role \in Roles : Cardinality(SentRecords(j, role)) = 1

\* The places in the history of a firing where an attempt started, and where
\* one ended (processSmsJob returned or threw).
Starts(j) == {i \in 1..Len(jobs[j].trace) : jobs[j].trace[i][1] = "start"}
Ends(j) == {i \in 1..Len(jobs[j].trace) : jobs[j].trace[i][1] \in {"return", "rethrow"}}

\* C22: at most one attempt of a firing is in flight - one while the job is
\* active, none otherwise - and every attempt starts after all the attempts
\* before it have ended, a retry right after the backoff of the attempt before.
C22_AttemptsNeverOverlap ==
    \A j \in JobIds :
        /\ Cardinality(Starts(j)) - Cardinality(Ends(j)) =
               IF jobs[j].state = "active" THEN 1 ELSE 0
        /\ \A i \in Starts(j) :
               /\ Cardinality({s \in Starts(j) : s < i}) =
                      Cardinality({e \in Ends(j) : e < i})
               /\ i > 1 => /\ jobs[j].trace[i - 1] = <<"retry">>
                           /\ jobs[j].trace[i - 2] = <<"rethrow">>

C22_Witness ==
    \E j \in JobIds :
        /\ jobs[j].state = "active"
        /\ Cardinality(Starts(j)) = Attempts
        /\ Cardinality(Ends(j)) = Attempts - 1

\* C23: across stops and restarts of the worker process the installed trigger
\* stays installed, and each occurrence that fired is delivered to each
\* recipient at most once.
C23_RestartNoLossNoDuplicate ==
    /\ PoolKey \in repeat
    /\ \A f \in fired : \A role \in Roles : Cardinality(AcceptedSends(f.job, role)) <= 1

\* A call of the function fn has returned.
Returned(fn) == given # Null /\ given.fn = fn /\ returned # Null

\* The lexicographic order of the titles.
TitleOrder == <<"A", "B">>
TitleRank(t) == CHOOSE i \in 1..Len(TitleOrder) : TitleOrder[i] = t

\* Two items equal on both sort keys, the due instant and the title.
SameKeys(a, b) ==
    getTime(a.dueAt) = getTime(b.dueAt) /\ a.assignmentName = b.assignmentName

\* C24: the list fetchTodoItems returns is ascending by due instant, items of
\* equal due instant are in the lexicographic order of their titles, and items
\* equal on both keys are in the order of the response.
C24_SortedByDueThenTitle ==
    Returned("fetchTodoItems") =>
        LET r == returned.value
            src == parseTodoItems(given.data)
        IN /\ \A i, k \in 1..Len(r) :
                  i < k =>
                      /\ getTime(r[i].dueAt) <= getTime(r[k].dueAt)
                      /\ getTime(r[i].dueAt) = getTime(r[k].dueAt) =>
                             TitleRank(r[i].assignmentName) <= TitleRank(r[k].assignmentName)
           /\ \A x \in ParsedTodoItems :
                  SelectSeq(r, LAMBDA y : SameKeys(x, y)) =
                      SelectSeq(src, LAMBDA y : SameKeys(x, y))

\* The times x occurs in the list seq.
Count(seq, x) == Cardinality({i \in 1..Len(seq) : seq[i] = x})

\* An item of the response that carries a due instant.
CarriesDue(item) == item.assignment # Null /\ item.assignment.due_at # Null

\* C25: the list fetchTodoItems returns holds every item of the response that
\* carries a due instant as often as the response does, and nothing else.
C25_ExactlyTheDueItems ==
    Returned("fetchTodoItems") =>
        LET r == returned.value
        IN /\ \A i \in 1..Len(r) : r[i].dueAt # Null
           /\ \A item \in CanvasTodoItems :
                  CarriesDue(item) => Count(r, ParseItem(item)) = Count(given.data, item)
           /\ Len(r) = Cardinality({i \in 1..Len(given.data) : CarriesDue(given.data[i])})

C25_Witness ==
    /\ Returned("fetchTodoItems")
    /\ Len(returned.value) >= 1
    /\ \E i \in 1..Len(given.data) : given.data[i].assignment = Null
    /\ \E i \in 1..Len(given.data) :
          given.data[i].assignment # Null /\ given.data[i].assignment.due_at = Null

\* The header of a message for a reference date: 'Assignments for
\* YYYY-MM-DD:' with the month counted from 1, then an empty line.
ExpectedHeader(date) ==
    << <<"Assignments for ",
         <<date.year, "-", <<(date.month + 1) \div 10, (date.month + 1) % 10>>, "-",
           <<date.day \div 10, date.day % 10>> >>,
         ":">>,
       <<>> >>

\* C26: for a list that is not empty formatMessage returns the header and an
\* empty line, then for every item, in the order of the list, the lines
\* 'Course:', 'Assignment: <title>', 'Type: <type>', 'Due: <date>' and an
\* empty line, and nothing more.
C26_HeaderAndBlocksInInputOrder ==
    (Returned("formatMessage") /\ given.todos # <<>>) =>
        LET text == returned.value
            todos == given.todos
        IN /\ Len(text) = 2 + 5 * Len(todos)
           /\ SubSeq(text, 1, 2) = ExpectedHeader(given.currentDate)
           /\ \A i \in 1..Len(todos) :
                  LET at == 2 + 5 * (i - 1)
                  IN /\ text[at + 1][1] = "Course: "
                     /\ text[at + 2] = <<"Assignment: ", todos[i].assignmentName>>
                     /\ text[at + 3] = <<"Type: ", todos[i].type>>
                     /\ text[at + 4] = <<"Due: ", todos[i].dueDate>>
                     /\ text[at + 5] = <<>>

C26_Witness ==
    /\ Returned("formatMessage")
    /\ Len(given.todos) >= 2
    /\ getTime(given.todos[1].dueAt) > getTime(given.todos[2].dueAt)
    /\ returned.value[4] = <<"Assignment: ", given.todos[1].assignmentName>>

\* The labels mapped to a course of a child in table course.
LabelsOf(childId, courseId, courses) ==
    {row.courseName : row \in {x \in courses :
        x.childId = childId /\ x.canvasCourseId = courseId /\ x.isActive}}

\* C27: in the block of an item the course line names the label mapped to the
\* course of the item for the child when there is one, and the raw course
\* identifier itself otherwise.
C27_LabelOrRawIdentifier ==
    Returned("formatMessage") =>
        \A i \in 1..Len(given.todos) :
            LET labels == LabelsOf(given.childId, given.todos[i].courseId, given.courses)
                line == returned.value[2 + 5 * (i - 1) + 1]
            IN IF labels # {}
               THEN \E label \in labels : line = <<"Course: ", label>>
               ELSE line = <<"Course: ", given.todos[i].courseId>>

\* C28: for the empty list formatMessage returns the header, an empty line and
\* the line 'No assignments due.', and has not read table course.
C28_EmptyListNoAssignmentsLine ==
    (Returned("formatMessage") /\ given.todos = <<>>) =>
        /\ returned.value = ExpectedHeader(given.currentDate) \o << <<"No assignments due.">> >>
        /\ ~returned.consulted

C28_Witness ==
    /\ Returned("formatMessage")
    /\ given.todos = <<>>
    /\ given.courses # {}
    /\ Len(returned.value) = 3

\* The least number of parts of at most m characters that hold len characters.
PartsOf(len, m) == CHOOSE k \in 1..len : (k - 1) * m < len /\ len <= k * m

\* C29: countSmsSegments returns 1 for a body of at most 160 characters (70
\* when a character is not ASCII) and the length divided by 153 (67), rounded
\* up, for a longer one: 3 for 320 ASCII characters, 2 for 100 characters one
\* of which is not ASCII.
C29_SegmentCount ==
    Returned("countSmsSegments") =>
        LET len == given.message.len
            u == given.message.hasUnicode
        IN /\ returned.value =
                  IF len <= (IF u THEN 70 ELSE 160) THEN 1
                  ELSE PartsOf(len, IF u THEN 67 ELSE 153)
           /\ (len = 320 /\ ~u) => returned.value = 3
           /\ (len = 100 /\ u) => returned.value = 2

C29_Witness ==
    /\ Returned("countSmsSegments")
    /\ given.message.len = 320
    /\ ~given.message.hasUnicode
    /\ returned.value = 3

\* The address of a recipient of a firing.
AddressOf(j, role) ==
    IF role = "parent" THEN parent[jobs[j].data.parentId].phoneNumber
    ELSE child[jobs[j].data.childId].phoneNumber

\* The calls of sendSms a firing has made for a recipient.
SendsTried(j, role) ==
    {i \in 1..Len(jobs[j].trace) :
        jobs[j].trace[i][1] = "send" /\ jobs[j].trace[i][2] = role}

WrittenNow(j) == {m \in RecordsOf(j) : m.attempt = Attempt(j)}

OptedIn(j) ==
    /\ preference[jobs[j].data.parentId].exists
    /\ preference[jobs[j].data.parentId].includeChildInSms

\* C32: a firing calls sendSms for the child, has a send to the child accepted
\* or writes a record with role 'child' only when the owner's preference row
\* has includeChildInSms set and the child has a phone number.
C32_ChildOnlyWhenOptedIn ==
    \A j \in JobIds :
        (\/ SendsTried(j, "child") # {}
         \/ AcceptedSends(j, "child") # {}
         \/ \E m \in RecordsOf(j) : m.recipientType = "child") =>
            /\ OptedIn(j)
            /\ child[jobs[j].data.childId].phoneNumber # Null

\* A firing of a child with a phone number whose owner has not opted in has
\* sent to the owner and completed.
C32_Witness ==
    \E j \in JobIds :
        /\ jobs[j].state = "completed"
        /\ ~OptedIn(j)
        /\ child[jobs[j].data.childId].phoneNumber # Null
        /\ SentRecords(j, "parent") # {}
        /\ SendsTried(j, "child") = {}

\* C33: updateMessageStatus(sid, status) sets the status of exactly the records
\* whose provider id is sid: every other record stays as it is, every matched
\* record keeps all its other fields, no record appears or disappears, and a
\* sid that no record has changes nothing.
C33_StatusMatchedBySidOnly ==
    [][\A twilioSid \in CallbackSids, status \in Statuses :
          updateMessageStatus(twilioSid, status) =>
              /\ \A m \in messages :
                    IF m.twilioSid = twilioSid
                    THEN [m EXCEPT !.status = status] \in messages'
                    ELSE m \in messages'
              /\ \A m2 \in messages' :
                    \E m \in messages :
                        /\ [m2 EXCEPT !.status = m.status] = m
                        /\ m2.status # m.status => m.twilioSid = twilioSid
              /\ Cardinality(messages') = Cardinality(messages)
              /\ (\A m \in messages : m.twilioSid # twilioSid) => messages' = messages]_vars

\* A callback has marked one record of a firing delivered; the firing's other
\* records, the one of the other recipient's send and a 'failed' one without a
\* provider id, are as they were written.
C33_Witness ==
    \E j \in JobIds :
        /\ \E m \in RecordsOf(j) : m.status = "delivered" /\ m.recipientType = "parent"
        /\ \E m \in RecordsOf(j) : m.status = "sent" /\ m.recipientType = "child"
        /\ \E m \in RecordsOf(j) : m.status = "failed" /\ m.twilioSid = Null

\* The step at which the attempt that step i of a firing belongs to started.
AttemptStart(j, i) ==
    CHOOSE s \in 1..i :
        /\ jobs[j].trace[s] = <<"start">>
        /\ \A k \in (s + 1)..i : jobs[j].trace[k] # <<"start">>

\* The steps of a firing that call the Delivery Client or write a 'sent' record.
DispatchSteps(j) ==
    {i \in 1..Len(jobs[j].trace) : jobs[j].trace[i][1] \in {"send", "log"}}

\* The steps of a firing at which an attempt entered the catch block.
CatchSteps(j) == {i \in 1..Len(jobs[j].trace) : jobs[j].trace[i][1] = "catch"}

\* C34: every send and every 'sent' record of an attempt comes after the fetch
\* of that attempt succeeded and after its message was formatted and found
\* valid, in this order; an attempt whose fetch or formatting failed has made
\* no send.
C34_FetchFormatDispatchInOrder ==
    \A j \in JobIds :
        /\ \A i \in DispatchSteps(j) :
              LET s == AttemptStart(j, i)
                  t == jobs[j].trace
              IN /\ s + 2 < i
                 /\ t[s + 1][1] = "fetch" /\ t[s + 1][2] = "ok"
                 /\ t[s + 2] = <<"format">>
                 /\ validateMessage(formatMessage(t[s + 1][3]))
                 /\ \A k \in s..i : t[k][1] # "catch"
        /\ \A c \in CatchSteps(j) :
              jobs[j].trace[c - 1][1] \in {"fetch", "format"} =>
                  \A i \in AttemptStart(j, c)..c : i \notin DispatchSteps(j)
        /\ \A m \in RecordsOf(j) :
              m.status = "sent" =>
                  /\ validateMessage(m.messageBody)
                  /\ m.messageBody = formatMessage(m.assignmentCount)

\* A firing whose first attempt failed in the fetch and whose second attempt
\* fetched, formatted and sent to both recipients.
C34_Witness ==
    \E j \in JobIds :
        /\ Cardinality(CatchSteps(j)) = 1
        /\ \E c \in CatchSteps(j) :
              /\ jobs[j].trace[c - 1][1] = "fetch"
              /\ \E i \in DispatchSteps(j) : i > c /\ jobs[j].trace[i][2] = "child"
        /\ jobs[j].state = "completed"

\* The weekdays a cron day-of-week field denotes: 1-5 is Monday to Friday, a
\* list is its numbers, 0 being Sunday.
CronWeekdays(dow) ==
    IF dow.shorthand THEN 1..5 ELSE {dow.days[i] : i \in 1..Len(dow.days)}

\* C35: for every send time and every non-empty list of different days,
\* buildCronExpression puts the minutes of sendTime in the minute field, its
\* hours in the hour field, and a day-of-week field that denotes exactly the
\* days given; Mon,Tue,Wed,Thu,Fri in that order are written 1-5.
C35_CronTimeAndWeekdays ==
    Returned("buildCronExpression") =>
        /\ returned.value.minute = given.sendTime[2]
        /\ returned.value.hour = given.sendTime[1]
        /\ CronWeekdays(returned.value.dow) =
              {dayMap(given.sendDays[i]) : i \in 1..Len(given.sendDays)}
        /\ given.sendDays = <<"Mon", "Tue", "Wed", "Thu", "Fri">>
              => returned.value.dow.shorthand

\* Five days that are not Monday to Friday, out of order.
C35_Witness ==
    /\ Returned("buildCronExpression")
    /\ given.sendDays = <<"Sat", "Sun", "Mon", "Wed", "Fri">>
    /\ given.sendTime = <<"07", "30", "00">>
    /\ returned.value.dow = [shorthand |-> FALSE, days |-> <<6, 0, 1, 3, 5>>]

\* The steps at which the attempts of a firing started, and the last step of
\* the attempt that started at step s.
StartSteps(j) == {i \in 1..Len(jobs[j].trace) : jobs[j].trace[i] = <<"start">>}
AttemptEnd(j, s) ==
    LET later == {i \in StartSteps(j) : i > s}
    IN IF later = {} THEN Len(jobs[j].trace)
       ELSE (CHOOSE i \in later : \A k \in later : i <= k) - 1

\* The number of the attempt that started at step s.
AttemptNo(j, s) == Cardinality({i \in StartSteps(j) : i <= s})

\* A body that is not blank and needs 1 to 5 segments.
WithinFiveSegments(message) ==
    message.len # 0 /\ countSmsSegments(message) \in 1..5

\* C36: an attempt whose formatted message is blank or needs more than 5
\* segments calls no sendSms, does not complete and, once ended, is counted as
\* failed for the invalid message; a message of 1 to 5 segments is accepted by
\* validateMessage (765 characters are, 766 are not) and every send the
\* provider accepted carries the whole formatted message of its attempt.
C36_AtMostFiveSegmentsNoTruncation ==
    /\ \A j \in JobIds : \A s \in StartSteps(j) :
          LET t == jobs[j].trace
              e == AttemptEnd(j, s)
          IN (e > s /\ t[s + 1][2] = "ok" /\ e > s + 1
                /\ ~WithinFiveSegments(formatMessage(t[s + 1][3]))) =>
                  /\ \A i \in s..e : t[i][1] \notin {"send", "log", "return"}
                  /\ e > s + 2 => t[s + 3][1] = "catch"
                  /\ jobs[j].attemptsMade >= AttemptNo(j, s) =>
                        jobs[j].errors[AttemptNo(j, s)] = "invalid"
    /\ \A a \in smsAccepted :
          /\ WithinFiveSegments(a.body)
          /\ \E n \in TodoCounts : a.body = formatMessage(n)
          /\ \A m \in RecordsOf(a.job) :
                (m.attempt = a.attempt /\ m.status = "sent") => m.messageBody = a.body
    /\ ~validateMessage(NoMessage)
    /\ validateMessage([len |-> 5 * MultiPartSegmentLength(FALSE), hasUnicode |-> FALSE])
    /\ ~validateMessage([len |-> 5 * MultiPartSegmentLength(FALSE) + 1, hasUnicode |-> FALSE])

\* A firing whose first attempt fetched a list too long for 5 segments and
\* failed without a send, and whose retry fetched a short list and sent it.
C36_Witness ==
    \E j \in JobIds :
        /\ jobs[j].errors = <<"invalid">>
        /\ jobs[j].state = "completed"
        /\ \E a \in AcceptedSends(j, "parent") : a.body = formatMessage(1)
        /\ ~WithinFiveSegments(formatMessage(jobs[j].trace[2][3]))

\* The delayed instances of the triggers of a pair.
InstancesOf(parentId, childId) ==
    {i \in repeatJobs : i.key.jobId = JobIdOf(parentId, childId)}

\* C37: scheduleDailySmsForPair and cancelDailySmsForPair of one pair leave
\* the triggers of every other pair, and their instances, as they were; two
\* different pairs have different trigger keys.
C37_OtherPairsUntouched ==
    [][\A pc \in Pairs :
          (scheduleDailySmsForPair(pc[1], pc[2]) \/ cancelDailySmsForPair(pc[1], pc[2])) =>
              \A other \in Pairs \ {pc} :
                  /\ JobIdOf(other[1], other[2]) # JobIdOf(pc[1], pc[2])
                  /\ TriggersOf(other[1], other[2])' = TriggersOf(other[1], other[2])
                  /\ InstancesOf(other[1], other[2])' = InstancesOf(other[1], other[2])]_vars

\* Two pairs have a trigger each, and a third scheduler call has been made.
C37_Witness ==
    /\ installs = MaxInstalls
    /\ \E pc \in Pairs, other \in Pairs :
          /\ pc # other
          /\ TriggersOf(pc[1], pc[2]) # {} /\ InstancesOf(pc[1], pc[2]) # {}
          /\ TriggersOf(other[1], other[2]) # {} /\ InstancesOf(other[1], other[2]) # {}

\* C38: every 'sent' record carries a provider id, the one returned by an
\* accepted send of the same attempt to the record's address with the
\* record's body; every 'failed' record has no provider id, an empty body and
\* the owner's role and address.
C38_SentHasSidFailedHasNone ==
    \A m \in messages :
        /\ m.status = "sent" =>
              /\ m.twilioSid # Null
              /\ \E a \in smsAccepted :
                    /\ a.job = m.job /\ a.attempt = m.attempt
                    /\ a.role = m.recipientType
                    /\ a.to = m.recipientPhone
                    /\ a.body = m.messageBody
                    /\ m.twilioSid = <<"SM", a.job, a.attempt, a.stalled, a.role>>
        /\ m.status = "failed" =>
              /\ m.twilioSid = Null
              /\ m.messageBody = NoMessage
              /\ m.recipientType = "parent"
              /\ m.recipientPhone = parent[m.parentId].phoneNumber
        /\ m.status \in {"sent", "failed"}

\* A firing that wrote a 'sent' record for the owner, failed on the child's
\* send and wrote a 'failed' record in the same attempt.
C38_Witness ==
    \E j \in JobIds :
        \E m \in SentRecords(j, "parent"), f \in FailedRecords(j) :
            /\ m.attempt = f.attempt
            /\ jobs[j].errors # <<>>
            /\ jobs[j].errors[m.attempt] = "sendChild"

\* The pairs scheduleAllDailySms can install: active, the parent with a
\* preference row.
Installable(pc) ==
    ActivePair(pc[1], pc[2]) /\ parent[pc[1]].exists /\ preference[pc[1]].exists

\* The trigger of a pair for the preferences its parent has now.
CurrentKey(pc) ==
    RepeatKey(JobIdOf(pc[1], pc[2]),
              buildCronExpression(preference[pc[1]].sendTime, preference[pc[1]].sendDays,
                                  parent[pc[1]].timezone),
              parent[pc[1]].timezone)

\* C39: scheduleAllDailySms installs the trigger of every active pair whose
\* parent has preferences, with its next instance, also when the install of
\* another active pair fails for want of a preference row; the triggers there
\* were stay.
C39_OneFailureDoesNotStopTheRest ==
    [][scheduleAllDailySms =>
          /\ \A pc \in Pairs :
                Installable(pc) =>
                    /\ CurrentKey(pc) \in repeat'
                    /\ \E i \in repeatJobs' : i.key = CurrentKey(pc)
          /\ repeat \subseteq repeat'
          /\ installs' = installs + 1]_vars

\* The pairs of a parent without preferences are active and have no trigger;
\* both pairs of the other parent have theirs.
C39_Witness ==
    \E p \in Parents, o \in Parents :
        /\ ~preference[p].exists
        /\ preference[o].exists
        /\ \A c \in Children :
              /\ ActivePair(p, c) /\ TriggersOf(p, c) = {}
              /\ ActivePair(o, c) /\ TriggersOf(o, c) # {}
        /\ installs = 1

\* C40: an attempt that has entered the catch block leaves it, whether the
\* 'failed' record was written, could not be written or had no owner to be
\* written for, by rethrowing the error it caught: the queue counts the attempt,
\* records that error and retries the job or, after the third attempt, fails it.
C40_OriginalErrorRethrown ==
    [][\A j \in JobIds :
          /\ (At(j, "catch") /\ jobs'[j] # jobs[j]) =>
                /\ jobs[j].error # "none"
                /\ jobs'[j].state = "active" /\ jobs'[j].pc = "rethrow"
                /\ jobs'[j].error = jobs[j].error
          /\ (At(j, "rethrow") /\ jobs'[j] # jobs[j]) =>
                /\ jobs'[j].errors = Append(jobs[j].errors, jobs[j].error)
                /\ jobs'[j].attemptsMade = jobs[j].attemptsMade + 1
                /\ jobs'[j].state =
                      IF jobs[j].attemptsMade + 1 < Attempts THEN "delayed" ELSE "failed"]_vars

\* The insert of the 'failed' record of a first attempt failed, the fetch error
\* of that attempt was rethrown, and the job was retried.
C40_Witness ==
    \E j \in JobIds :
        /\ Len(jobs[j].trace) >= 5
        /\ jobs[j].trace[2] = <<"fetch", "network", 1>>
        /\ jobs[j].trace[3] = <<"catch", FALSE>>
        /\ jobs[j].trace[4] = <<"rethrow">>
        /\ jobs[j].trace[5] = <<"retry">>
        /\ jobs[j].errors[1] = "network"
        /\ \A m \in FailedRecords(j) : m.attempt # 1

====
